---- MODULE Spec2Model ----
(***************************************************************************)
(* State-machine model of the projectile simulation engine                 *)
(* (physics/simulation.ts, physics/forces.ts, physics/integrators.ts,      *)
(* physics/constants.ts, physics/turbulence.ts).                           *)
(*                                                                         *)
(* The program computes with IEEE doubles; the model computes with         *)
(* integers in fixed point and rounds every product to the nearest unit:   *)
(*   time              ms            (MIN_TIME_STEP = 5, MAX_TIME_STEP = 20)*)
(*   velocity          1e-4 m/s                                            *)
(*   position, radius  1e-7 m        (velocity unit times ms)              *)
(*   acceleration      mm/s^2                                              *)
(*   spin              mrad/s                                              *)
(*   mass              g                                                   *)
(*   moment of inertia g cm^2  (1e-7 kg m^2)                               *)
(*   unit vectors, factors, coefficients   1e-4                            *)
(* A vector is a record [x, y, z, nan]; nan = TRUE stands for a vector     *)
(* whose three components are NaN (the components are then kept at 0).     *)
(* Every comparison with a NaN operand is FALSE, as in the program.        *)
(* The rendering handles (mesh, trail, scene) are not modelled.            *)
(***************************************************************************)
EXTENDS Integers, Sequences, FiniteSets, TLC

(***************************************************************************)
(* Fixed-point helpers                                                     *)
(***************************************************************************)
\* one, in the 1e-4 fixed point of factors and coefficients
Unit == 10 ^ 4

Abs(a) == IF a < 0 THEN -a ELSE a

Min(a, b) == IF a <= b THEN a ELSE b

Max(a, b) == IF a >= b THEN a ELSE b

\* floor((a * b + c / 2) / c) for c > 0, without forming a * b
MulDivPos(a, b, c) == (a \div c) * b + ((a % c) * b + c \div 2) \div c

\* a * b / c rounded to the nearest integer; the larger factor is the one split
MulDiv(a, b, c) ==
  IF c < 0 THEN (IF Abs(a) < Abs(b) THEN MulDivPos(-b, a, -c) ELSE MulDivPos(-a, b, -c))
  ELSE IF Abs(a) < Abs(b) THEN MulDivPos(b, a, c) ELSE MulDivPos(a, b, c)

\* a * b / 10^6, in two roundings
MulDivM(a, b) == MulDiv(MulDiv(a, b, 1000), 1, 1000)

RECURSIVE SqrtIter(_, _)
SqrtIter(n, x) ==
  LET y == (x + n \div x) \div 2
  IN  IF y >= x THEN x ELSE SqrtIter(n, y)

\* Math.sqrt, rounded down
ISqrt(n) == IF n <= 0 THEN 0 ELSE SqrtIter(n, Min(n, 46340))

\* Math.exp(-u) for u >= 0; u and the result in 1e-4
ExpNegTable == <<10000, 3679, 1353, 498, 183, 67, 25, 9, 3, 1>>

ExpNeg(u) ==
  LET n  == u \div Unit
      f  == u % Unit
      t6 == Unit - f \div 6
      t5 == Unit - (f * t6) \div (5 * Unit)
      t4 == Unit - (f * t5) \div (4 * Unit)
      t3 == Unit - (f * t4) \div (3 * Unit)
      t2 == Unit - (f * t3) \div (2 * Unit)
      t1 == Unit - (f * t2) \div Unit
  IN  IF n >= Len(ExpNegTable) THEN 0
      ELSE (t1 * ExpNegTable[n + 1] + Unit \div 2) \div Unit

\* 2 * Math.PI in micro-radians
TwoPiMicro == 2 * 3141593

\* sine of an angle in [0, pi/2], angle in micro-radians, result in 1e-4
SinQuadrant(a) ==
  LET x  == a \div 100
      u  == (x * x) \div Unit
      t3 == Unit - u \div 42
      t2 == Unit - (u * t3) \div (20 * Unit)
      t1 == Unit - (u * t2) \div (6 * Unit)
  IN  (x * t1 + Unit \div 2) \div Unit

\* Math.sin; angle in micro-radians, result in 1e-4
Sin(a) ==
  LET r == a % TwoPiMicro
      h == TwoPiMicro \div 2
      q == TwoPiMicro \div 4
  IN  IF r <= q THEN SinQuadrant(r)
      ELSE IF r <= h THEN SinQuadrant(h - r)
      ELSE IF r <= h + q THEN -SinQuadrant(r - h)
      ELSE -SinQuadrant(TwoPiMicro - r)

\* Math.cos; angle in micro-radians, result in 1e-4
Cos(a) == Sin(a + TwoPiMicro \div 4)

\* the JavaScript remainder a % m (sign of the dividend), m > 0
JsRem(a, m) == IF a >= 0 THEN a % m ELSE -((-a) % m)

(***************************************************************************)
(* THREE.Vector3                                                           *)
(***************************************************************************)
Vec(x, y, z) == [x |-> x, y |-> y, z |-> z, nan |-> FALSE]

ZeroVec == Vec(0, 0, 0)

NaNVec == [x |-> 0, y |-> 0, z |-> 0, nan |-> TRUE]

VAdd(a, b) == IF a.nan \/ b.nan THEN NaNVec ELSE Vec(a.x + b.x, a.y + b.y, a.z + b.z)

VSub(a, b) == IF a.nan \/ b.nan THEN NaNVec ELSE Vec(a.x - b.x, a.y - b.y, a.z - b.z)

\* v * (num / den)
VScale(v, num, den) ==
  IF v.nan THEN NaNVec
  ELSE Vec(MulDiv(v.x, num, den), MulDiv(v.y, num, den), MulDiv(v.z, num, den))

\* a . b / den (finite vectors)
VDot(a, b, den) == MulDiv(a.x, b.x, den) + MulDiv(a.y, b.y, den) + MulDiv(a.z, b.z, den)

\* (a x b) / den
VCross(a, b, den) ==
  IF a.nan \/ b.nan THEN NaNVec
  ELSE Vec(MulDiv(a.y, b.z, den) - MulDiv(a.z, b.y, den),
           MulDiv(a.z, b.x, den) - MulDiv(a.x, b.z, den),
           MulDiv(a.x, b.y, den) - MulDiv(a.y, b.x, den))

\* lengthSq() === 0 (false for NaN)
IsZero(v) == ~v.nan /\ v.x = 0 /\ v.y = 0 /\ v.z = 0

VLenSq(v) == v.x * v.x + v.y * v.y + v.z * v.z

\* a finite vector scaled down until its components are at most 26000
Shrink(v) ==
  LET m == Max(Abs(v.x), Max(Abs(v.y), Abs(v.z)))
      k == m \div 20000 + 1
  IN  IF m <= 26000 THEN [v |-> v, k |-> 1]
      ELSE [v |-> Vec(v.x \div k, v.y \div k, v.z \div k), k |-> k]

\* length() of a finite vector
VLen(v) == LET s == Shrink(v) IN s.k * ISqrt(VLenSq(s.v))

\* Vector3.normalize: divideScalar(length() || 1); result in 1e-4
VNormalize(v) ==
  IF v.nan THEN NaNVec
  ELSE LET w == Shrink(v).v
           l == ISqrt(VLenSq(w))
       IN  IF l = 0 THEN ZeroVec
           ELSE Vec(MulDiv(w.x, Unit, l), MulDiv(w.y, Unit, l), MulDiv(w.z, Unit, l))

\* the direction of a x b: the cross product with its terms scaled to fit
CrossDir(a, b) ==
  IF a.nan \/ b.nan THEN NaNVec
  ELSE LET ma == Max(Abs(a.x), Max(Abs(a.y), Abs(a.z)))
           mb == Max(Abs(b.x), Max(Abs(b.y), Abs(b.z)))
       IN  VCross(a, b, ((ma \div 100 + 1) * (mb \div 100 + 1)) \div 10000 + 1)

\* componentwise v.k * num / d.k (the divisions by momentOfInertia)
VDivComp(v, num, d) ==
  IF v.nan THEN NaNVec
  ELSE Vec(MulDiv(v.x, num, d.x), MulDiv(v.y, num, d.y), MulDiv(v.z, num, d.z))

\* v * (k / 10^6) (finite vectors)
VScaleM(v, k) == Vec(MulDivM(v.x, k), MulDivM(v.y, k), MulDivM(v.z, k))

(***************************************************************************)
(* physics/constants.ts                                                    *)
(***************************************************************************)
\* 0.005 s and 0.02 s, in ms
MIN_TIME_STEP == 5

MAX_TIME_STEP == 20

\* 8500 m
SCALE_HEIGHT == 8500

\* 293.15 K, in centi-kelvin
SEA_LEVEL_TEMP == 29315

\* 0.15, in 1e-4
TURBULENCE_INTENSITY == 1500

\* 10 m
TURBULENCE_SCALE == 10

\* seaLevelDensity * Math.exp(-altitude / SCALE_HEIGHT); altitude in 1e-7 m,
\* densities in 1e-4 kg/m^3
airDensityAtAltitude(altitude, seaLevelDensity) ==
  MulDiv(seaLevelDensity, ExpNeg(altitude \div (SCALE_HEIGHT * 1000)), Unit)

\* Sutherland's law; temperature in centi-kelvin, result in 1e-9 Pa s
airViscosity(temperature) ==
  LET T0   == 29115
      mu0  == 18270
      C    == 12000
      r    == MulDiv(temperature, Unit, T0)
      p15  == MulDiv(r, ISqrt(r * Unit), Unit)
  IN  MulDiv(MulDiv(mu0, p15, Unit), T0 + C, temperature + C)

\* (density * velocity * diameter) / viscosity, in 1e-2;
\* density 1e-4 kg/m^3, velocity 1e-4 m/s, diameter 1e-4 m, viscosity 1e-9
reynoldsNumber(velocity, diameter, density, viscosity) ==
  MulDiv(MulDiv(density, velocity, Unit) * diameter, 1000, viscosity)

\* Math.pow(re, 0.687) for 1 <= re <= 1000, by interpolation in a table;
\* re in 1e-2, result in 1e-4
PowTableRe == <<100, 200, 500, 1000, 2000, 5000, 10000, 20000, 50000, 100000>>

PowTableVal == <<10000, 16099, 30213, 48641, 78308, 146958, 236592, 380897, 714813, 1150800>>

RECURSIVE PowSegment(_, _)
PowSegment(re, i) ==
  IF i + 1 < Len(PowTableRe) /\ re >= PowTableRe[i + 1] THEN PowSegment(re, i + 1) ELSE i

Pow0687(re) ==
  LET i  == PowSegment(re, 1)
      x0 == PowTableRe[i]
      x1 == PowTableRe[i + 1]
  IN  PowTableVal[i] + MulDiv(PowTableVal[i + 1] - PowTableVal[i], re - x0, x1 - x0)

\* the drag coefficient is a number, Infinity (24 / 0) or NaN
Num(v) == [v |-> v, inf |-> FALSE, nan |-> FALSE]

Infinity == [v |-> 0, inf |-> TRUE, nan |-> FALSE]

NaN == [v |-> 0, inf |-> FALSE, nan |-> TRUE]

\* re: a Num in 1e-2 (NaN when the diameter is undefined); baseCd and the
\* result in 1e-4.  Every comparison with NaN is false: the last branch.
dragCoefficient(re, baseCd) ==
  IF re.nan THEN Num(MulDiv(baseCd, 4, 10))
  ELSE IF re.v < 100 THEN
         (IF re.v = 0 THEN Infinity ELSE Num(MulDiv(24 * Unit, 100, re.v)))
  ELSE IF re.v < 100000 THEN
         Num(MulDiv(MulDiv(24 * Unit, 100, re.v),
                    Unit + MulDiv(Pow0687(re.v), 15, 100), Unit))
  ELSE IF re.v < 30000000 THEN Num(baseCd)
  ELSE IF re.v < 50000000 THEN
         LET t == MulDiv(re.v - 30000000, 1, 2000)
         IN  Num(MulDiv(baseCd, Unit - MulDiv(t, 6, 10), Unit))
  ELSE Num(MulDiv(baseCd, 4, 10))

\* spinRatio: a Num in 1e-4; result a Num in 1e-4
magnusLiftCoefficient(spinRatio) ==
  IF spinRatio.nan THEN NaN
  ELSE IF spinRatio.v < 1000 THEN Num(MulDiv(spinRatio.v, 5, 1))
  ELSE IF spinRatio.v < 5000 THEN Num(5000)
  ELSE Num(MulDiv(5000, ExpNeg(MulDiv(spinRatio.v - 5000, 10, 3)), Unit))

(***************************************************************************)
(* physics/forces.ts                                                       *)
(* A ProjectileState is a record [position, velocity, spin, rotation,      *)
(* mass, area, dragCoefficient, spinDamping, restitution, momentOfInertia, *)
(* radius]: area in mm^2, radius a Num in 1e-7 m that is NaN where the     *)
(* field is absent (reading it gives undefined, which is NaN in            *)
(* arithmetic).  An EnvironmentState is [gravity, airDensity, windVector]. *)
(***************************************************************************)
\* the force, in micro-newton
gravityForce(state, environment) == Vec(0, -(state.mass * environment.gravity), 0)

\* dragForce without the early return for speed === 0
dragForceUnguarded(state, environment) ==
  LET relativeVelocity == VSub(state.velocity, environment.windVector)
      speed    == VLen(relativeVelocity)
      rho      == airDensityAtAltitude(Max(0, state.position.y), environment.airDensity)
      diameter == IF state.radius.nan THEN NaN ELSE Num((state.radius.v * 2) \div 1000)
      mu       == airViscosity(SEA_LEVEL_TEMP)
      re       == IF diameter.nan THEN NaN
                  ELSE Num(reynoldsNumber(speed, diameter.v, rho, mu))
      k(cd)    == MulDiv(MulDiv(cd.v, rho, Unit), state.area, 2 * state.mass)
      force(cd) == IF state.position.nan \/ cd.inf \/ cd.nan THEN NaNVec
                   ELSE VScaleM(relativeVelocity, -MulDivM(k(cd), speed))
  IN  IF relativeVelocity.nan THEN NaNVec
      ELSE force(dragCoefficient(re, state.dragCoefficient))

\* the acceleration -(1/2) Cd rho A |v| v / m, in mm/s^2
dragForce(state, environment) ==
  LET relativeVelocity == VSub(state.velocity, environment.windVector)
      speed    == VLen(relativeVelocity)
      rho      == airDensityAtAltitude(Max(0, state.position.y), environment.airDensity)
      diameter == IF state.radius.nan THEN NaN ELSE Num((state.radius.v * 2) \div 1000)
      mu       == airViscosity(SEA_LEVEL_TEMP)
      re       == IF diameter.nan THEN NaN
                  ELSE Num(reynoldsNumber(speed, diameter.v, rho, mu))
      k(cd)    == MulDiv(MulDiv(cd.v, rho, Unit), state.area, 2 * state.mass)
      force(cd) == IF state.position.nan \/ cd.inf \/ cd.nan THEN NaNVec
                   ELSE VScaleM(relativeVelocity, -MulDivM(k(cd), speed))
  IN  IF relativeVelocity.nan THEN NaNVec
      ELSE IF speed = 0 THEN ZeroVec
      ELSE force(dragCoefficient(re, state.dragCoefficient))

\* the acceleration (1/2) rho A CL 3 (spin x v) / m, in mm/s^2
magnusForce(state, environment) ==
  LET relativeVelocity == VSub(state.velocity, environment.windVector)
      speed     == VLen(relativeVelocity)
      spinSpeed == VLen(state.spin)
      rho       == airDensityAtAltitude(Max(0, state.position.y), environment.airDensity)
      spinRatio == IF state.radius.nan THEN NaN
                   ELSE Num(MulDiv((state.radius.v \div 1000) * 10, spinSpeed, speed + 100))
      clRho(cl) == MulDiv(MulDiv(rho, cl.v, Unit) * 3, state.area, 2 * state.mass)
      lift      == VCross(state.spin, relativeVelocity, 1000)
      force(cl) == IF relativeVelocity.nan \/ state.spin.nan \/ state.position.nan \/ cl.nan
                     THEN NaNVec
                   ELSE VScale(VScaleM(lift, clRho(cl)), 1, 100)
  IN  IF IsZero(relativeVelocity) \/ IsZero(state.spin) THEN ZeroVec
      ELSE force(magnusLiftCoefficient(spinRatio))

\* part_004: totalAcceleration
totalAcceleration(state, environment) ==
  VAdd(VAdd(VScale(gravityForce(state, environment), 1, state.mass),
            dragForce(state, environment)),
       magnusForce(state, environment))

\* spin damping d(omega)/dt = -k omega^2; spinDamping in 1e-4
integrateSpin(state, dt) ==
  LET spinSpeed        == VLen(state.spin)
      quadraticDamping == MulDivM(state.spinDamping * dt, spinSpeed)
  IN  IF IsZero(state.spin) THEN state
      ELSE [state EXCEPT !.spin = VScale(state.spin, Unit, Unit + quadraticDamping)]

\* THREE.Quaternion, components in 1e-4
Quat(x, y, z, w) == [x |-> x, y |-> y, z |-> z, w |-> w, nan |-> FALSE]

IdentityQuat == Quat(0, 0, 0, Unit)

NaNQuat == [x |-> 0, y |-> 0, z |-> 0, w |-> 0, nan |-> TRUE]

\* Quaternion.multiplyQuaternions(a, b)
QMultiply(a, b) ==
  LET P(u, v) == MulDiv(u, v, Unit)
  IN  Quat(P(a.x, b.w) + P(a.w, b.x) + P(a.y, b.z) - P(a.z, b.y),
           P(a.y, b.w) + P(a.w, b.y) + P(a.z, b.x) - P(a.x, b.z),
           P(a.z, b.w) + P(a.w, b.z) + P(a.x, b.y) - P(a.y, b.x),
           P(a.w, b.w) - P(a.x, b.x) - P(a.y, b.y) - P(a.z, b.z))

\* q.x += dq.x, q.y += dq.y, q.z += dq.z, q.w += dq.w
QAdd(a, b) == Quat(a.x + b.x, a.y + b.y, a.z + b.z, a.w + b.w)

\* Quaternion.normalize
QNormalize(q) ==
  LET l == ISqrt(q.x * q.x + q.y * q.y + q.z * q.z + q.w * q.w)
  IN  IF l = 0 THEN IdentityQuat
      ELSE Quat(MulDiv(q.x, Unit, l), MulDiv(q.y, Unit, l), MulDiv(q.z, Unit, l),
                MulDiv(q.w, Unit, l))

integrateRotation(state, dt) ==
  LET I             == state.momentOfInertia
      inertiaDiff   == Abs(I.x - I.y) + Abs(I.y - I.z) + Abs(I.z - I.x)
      perpendicular == VNormalize(Vec(state.spin.y - state.spin.z,
                                      state.spin.z - state.spin.x,
                                      state.spin.x - state.spin.y))
      precession    == VScaleM(VScaleM(perpendicular, inertiaDiff), dt)
      omega(spin)   == Quat(MulDiv(spin.x, dt, 200), MulDiv(spin.y, dt, 200),
                            MulDiv(spin.z, dt, 200), 0)
      dq(spin)      == QMultiply(omega(spin), state.rotation)
      q             == state.rotation
      turned(spin)  == [state EXCEPT !.spin = spin,
                                     !.rotation = QNormalize(QAdd(q, dq(spin)))]
  IN  IF IsZero(state.spin) THEN state
      ELSE IF state.spin.nan \/ q.nan
        THEN [state EXCEPT !.rotation = NaNQuat]
      ELSE turned(IF inertiaDiff > 10000 THEN VAdd(state.spin, precession)
                  ELSE state.spin)

\* torque from drag on the spinning body and from vortex shedding, in 1e-7 N m
aerodynamicTorque(state, environment) ==
  LET relativeVelocity == VSub(state.velocity, environment.windVector)
      speed       == VLen(relativeVelocity)
      rho         == airDensityAtAltitude(Max(0, state.position.y), environment.airDensity)
      spinSpeed   == VLen(state.spin)
      r           == state.radius.v \div 1000
      rhoR3       == MulDiv(MulDiv(r * r, r, 1000), rho, Unit)
      torqueCoeff == MulDivM(MulDiv(rhoR3, 15, 100), spinSpeed)
      dragTorque  == VScale(state.spin, -torqueCoeff, 100)
      vortexAxis  == VNormalize(CrossDir(relativeVelocity, state.spin))
      vortexMagnitude == MulDivM(MulDiv(rhoR3, 5, 100), speed)
  IN  IF (~relativeVelocity.nan /\ speed = 0) \/ IsZero(state.spin) THEN ZeroVec
      ELSE IF relativeVelocity.nan \/ state.spin.nan \/ state.position.nan THEN NaNVec
      ELSE VAdd(dragTorque, VScale(vortexAxis, vortexMagnitude, Unit))

(***************************************************************************)
(* physics/integrators.ts                                                  *)
(***************************************************************************)
\* the copy has neither rotation nor momentOfInertia nor radius
cloneState(state) ==
  [position |-> state.position, velocity |-> state.velocity, spin |-> state.spin,
   mass |-> state.mass, area |-> state.area, dragCoefficient |-> state.dragCoefficient,
   spinDamping |-> state.spinDamping, restitution |-> state.restitution,
   radius |-> NaN]

\* a variant of rk4Integrate that moves the position with the velocity at the
\* start of the step only
rk4IntegrateFirstOrder(state, environment, dt) ==
  LET moved(k1) ==
        [state EXCEPT !.velocity = VAdd(state.velocity, VScale(k1, dt, 100)),
                      !.position = VAdd(state.position, VScale(state.velocity, dt, 1))]
  IN  moved(totalAcceleration(state, environment))

\* accelerations in mm/s^2, dt in ms: a dt / 100 in 1e-4 m/s, v dt in 1e-7 m
rk4Integrate(state, environment, dt) ==
  LET tempState == cloneState(state)
      accel(s)  == totalAcceleration(s, environment)
      \* tempState at position + vel dt / den and velocity + k dt / den
      moved(vel, k, den) ==
        [tempState EXCEPT !.position = VAdd(state.position, VScale(vel, dt, den)),
                          !.velocity = VAdd(state.velocity, VScale(k, dt, 100 * den))]
      weighted(a, b, c, d) == VAdd(VAdd(VAdd(a, VScale(b, 2, 1)), VScale(c, 2, 1)), d)
      result(k1, vel2, k2, vel3, k3, vel4, k4) ==
        [state EXCEPT
           !.velocity = VAdd(state.velocity, VScale(weighted(k1, k2, k3, k4), dt, 600)),
           !.position = VAdd(state.position,
                             VScale(weighted(state.velocity, vel2, vel3, vel4), dt, 6))]
      from4(k1, vel2, k2, vel3, k3, temp4) ==
        result(k1, vel2, k2, vel3, k3, temp4.velocity, accel(temp4))
      with3(k1, vel2, k2, vel3, k3) == from4(k1, vel2, k2, vel3, k3, moved(vel3, k3, 1))
      from3(k1, vel2, k2, temp3)    == with3(k1, vel2, k2, temp3.velocity, accel(temp3))
      with2(k1, vel2, k2)           == from3(k1, vel2, k2, moved(vel2, k2, 2))
      from2(k1, temp2)              == with2(k1, temp2.velocity, accel(temp2))
      with1(k1)                     == from2(k1, moved(state.velocity, k1, 2))
  IN  with1(accel(state))

(***************************************************************************)
(* physics/turbulence.ts                                                   *)
(* The hash of SimplexNoise takes the fractional part of a sine of a huge  *)
(* argument: a pseudo-random function of the seed and the lattice point.   *)
(* The model uses an integer pseudo-random function of the same arguments. *)
(***************************************************************************)
\* a value in [0, 1), in 1e-4
hash(seed, x, y, z, t) ==
  (((seed * 7919 + x * 3761 + y * 6691 + z * 1277 + t * 1138) % 10007) * 4373) % Unit

lerp(a, b, t) == a + ((b - a) * t + Unit \div 2) \div Unit

smoothstep(t) == (((t * t + Unit \div 2) \div Unit) * (3 * Unit - 2 * t) + Unit \div 2) \div Unit

\* coordinates and result in 1e-4; the result is in [-1, 1]
noise4D(seed, x, y, z, t) ==
  LET xi == x \div Unit   yi == y \div Unit   zi == z \div Unit   ti == t \div Unit
      u  == smoothstep(x % Unit)
      v  == smoothstep(y % Unit)
      w  == smoothstep(z % Unit)
      s  == smoothstep(t % Unit)
      H(a, b, c, d) == hash(seed, xi + a, yi + b, zi + c, ti + d)
      X(b, c, d) == lerp(H(0, b, c, d), H(1, b, c, d), u)
      Y(c, d)    == lerp(X(0, c, d), X(1, c, d), v)
      Z(d)       == lerp(Y(0, d), Y(1, d), w)
  IN  lerp(Z(0), Z(1), s) * 2 - Unit

\* three octaves of one noise source
fractalNoise(seed, x, y, z, t) ==
  noise4D(seed, x, y, z, t)
  + MulDiv(noise4D(seed, x * 2, y * 2, z * 2, t * 2), 5, 10)
  + MulDiv(noise4D(seed, x * 4, y * 4, z * 4, t * 4), 25, 100)

\* TurbulenceField.getTurbulence; field = [noiseX, noiseY, noiseZ, time], time
\* in micro-seconds; position in 1e-7 m, winds in 1e-4 m/s
getTurbulence(field, position, baseWind) ==
  LET scale == TURBULENCE_SCALE
      x == position.x \div (1000 * scale)
      y == position.y \div (1000 * scale)
      z == position.z \div (1000 * scale)
      t == field.time \div 100
      turbX == fractalNoise(field.noiseX, x, y, z, t)
      turbY == fractalNoise(field.noiseY, x, y, z, t)
      turbZ == fractalNoise(field.noiseZ, x, y, z, t)
      groundEffect == Min(Unit, position.y \div 10000)
      baseSpeed    == VLen(baseWind)
      amplitude    == MulDiv(baseSpeed, TURBULENCE_INTENSITY, Unit)
      turbulence   == Vec(MulDiv(turbX, amplitude, Unit),
                          MulDiv(MulDiv(turbY, amplitude, Unit), 5, 10),
                          MulDiv(turbZ, amplitude, Unit))
  IN  IF position.nan THEN NaNVec
      ELSE VAdd(VScale(baseWind, groundEffect, Unit), turbulence)

\* TurbulenceField.addGust; time in ms
addGust(position, time) ==
  LET gustPeriod   == 20000
      phaseMs      == JsRem(time, gustPeriod)
      gustStrength == ExpNeg(((phaseMs - gustPeriod \div 2) * (phaseMs - gustPeriod \div 2))
                             \div 2500)
      gustAngle    == MulDiv(Sin(position.x \div 100 + time * 300), 31416, 100)
  IN  IF position.nan THEN NaNVec
      ELSE Vec(MulDiv(Cos(gustAngle), gustStrength * 5, Unit), 0,
               MulDiv(Sin(gustAngle), gustStrength * 5, Unit))

(***************************************************************************)
(* physics/simulation.ts: SimulationEngine                                 *)
(***************************************************************************)
\* 0.15 m/s, in 1e-4 m/s
REST_THRESHOLD == 1500

\* 0.08 s, in ms
TELEMETRY_INTERVAL == 80

\* 0.02, in 1e-4
ROLLING_FRICTION_COEFF == 200

\* 0.005 m, in 1e-7 m
GROUND_CONTACT_TOLERANCE == 50000

\* the bump-mapped unit normal of the ground at (x, z), in 1e-4
getGroundNormal(x, z) ==
  LET roughness == 15
      nx == MulDiv(Sin(MulDiv(x, 8, 100)) + Cos(MulDiv(z, 104, 1000)), roughness, 100)
      nz == MulDiv(Cos(MulDiv(x, 88, 1000)) + Sin(MulDiv(z, 72, 1000)), roughness, 100)
  IN  VNormalize(Vec(nx, Unit, nz))

\* the part of contact and collision that reads the spin: the velocity of the
\* contact point split along the normal; contactOffset in 1e-5 m
contactKinematics(state, normal) ==
  LET contactOffset == VScale(normal, -(state.radius.v \div 100), Unit)
      rotationalVel == VCross(state.spin, contactOffset, 10000)
      parts(contactVel, vn, tangentialVel) ==
        [contactOffset |-> contactOffset, vn |-> vn, nan |-> contactVel.nan,
         tangentialVel |-> tangentialVel,
         speed |-> IF contactVel.nan THEN 0 ELSE VLen(tangentialVel)]
      \* normalVel = normal * vn, tangentialVel = contactVel - normalVel
      along(contactVel, vn) ==
        parts(contactVel, vn, VSub(contactVel, VScale(normal, vn, Unit)))
      split(contactVel) == along(contactVel, VDot(contactVel, normal, Unit))
  IN  split(VAdd(state.velocity, rotationalVel))

\* (r x F) / I as a change of spin per second, in mrad/s^2; r in 1e-5 m
torqueOverInertia(contactOffset, F, den, state) ==
  VDivComp(VCross(contactOffset, F, den), 1000, state.momentOfInertia)

applyGroundContactForces(state, environment, dt) ==
  LET s1 == [state EXCEPT !.position.y = state.radius.v]
      dampingFactor == ExpNeg(20 * dt)
      damped(s3, c) ==
        IF ~c.nan /\ c.speed < 5000
          THEN [s3 EXCEPT !.velocity = VScale(s3.velocity, dampingFactor, Unit),
                          !.spin = VScale(s3.spin, dampingFactor, Unit)]
        ELSE s3
      \* multiplyScalar works in place: rollingFriction is the acceleration
      \* frictionAccel where the torque is taken
      slowed(s2, c, frictionAccel) ==
        IF ~c.nan /\ c.speed > 100
          THEN [s2 EXCEPT
                  !.velocity = VAdd(s2.velocity, VScale(frictionAccel, dt, 100)),
                  !.spin = VAdd(s2.spin,
                                VScale(torqueOverInertia(c.contactOffset, frictionAccel,
                                                         10, s2), dt, 1000))]
        ELSE s2
      rollingFriction(s2, c) ==
        VScale(VNormalize(c.tangentialVel),
               -MulDiv(s2.mass * environment.gravity, ROLLING_FRICTION_COEFF, Unit), Unit)
      rolled(s2, c) == damped(slowed(s2, c, VScale(rollingFriction(s2, c), 1, s2.mass)), c)
      inContact(s2, normal) == rolled(s2, contactKinematics(s2, normal))
      pressed(normal, vn) ==
        inContact(IF vn < 0
                    THEN [s1 EXCEPT !.velocity = VAdd(s1.velocity, VScale(normal, -vn, Unit))]
                  ELSE s1, normal)
      onNormal(normal) == pressed(normal, VDot(s1.velocity, normal, Unit))
  IN  onNormal(getGroundNormal(s1.position.x, s1.position.z))

\* a variant of handleGroundCollision whose friction impulse is not clamped
handleGroundCollisionUnclamped(state, surfaceProps) ==
  LET I == state.momentOfInertia
      seated(s) == [s EXCEPT !.position.y = s.radius.v]
      \* 1 / mass + ((contactOffset x dir) / I x contactOffset) . dir
      denominatorAlong(co, dir) ==
        (1000 * Unit) \div state.mass
        + VDot(VCross(co, VDivComp(VCross(co, dir, 1), 10, I), 10000), dir, Unit)
      effectiveRestitution(c) == MulDiv(state.restitution, ExpNeg(Abs(c.vn) \div 20), Unit)
      jnOf(c, normal) == MulDiv(-(c.vn * 1000), Unit + effectiveRestitution(c),
                                denominatorAlong(c.contactOffset, normal))
      jtOf(c, maxFriction, denominatorT) ==
        IF c.speed > 100
          THEN IF denominatorT = 0 THEN -maxFriction
               ELSE MulDiv(-(c.speed * 1000), Unit, denominatorT)
        ELSE 0
      \* velocity += impulse / mass, spin += (contactOffset x impulse) / I
      struck(s, co, J) ==
        [s EXCEPT !.velocity = VAdd(s.velocity, VScale(J, 1, s.mass)),
                  !.spin = VAdd(s.spin, VScale(torqueOverInertia(co, J, 100, s), 1, 1000))]
      frictionImpulse(c, jn, tangentDir) ==
        VScale(tangentDir,
               jtOf(c, MulDiv(Abs(jn), surfaceProps.friction, Unit),
                    denominatorAlong(c.contactOffset, tangentDir)), Unit)
      rubbed(s1, c, jn, tangentDir) ==
        IF c.speed > 100
          THEN struck(s1, c.contactOffset, frictionImpulse(c, jn, tangentDir))
        ELSE s1
      bounced(c, normal, jn) ==
        rubbed(struck(state, c.contactOffset, VScale(normal, jn, Unit)), c, jn,
               VNormalize(c.tangentialVel))
      response(c, normal) ==
        IF c.nan
          THEN [state EXCEPT !.velocity = NaNVec, !.spin = NaNVec,
                             !.position.y = state.radius.v]
        ELSE IF c.vn >= -100 THEN seated(state)
        ELSE seated(bounced(c, normal, jnOf(c, normal)))
      onNormal(normal) == response(contactKinematics(state, normal), normal)
  IN  onNormal(getGroundNormal(state.position.x, state.position.z))

\* impulses in 1e-7 kg m/s, denominators in 1e-4 / kg
handleGroundCollision(state, surfaceProps) ==
  LET I == state.momentOfInertia
      seated(s) == [s EXCEPT !.position.y = s.radius.v]
      \* 1 / mass + ((contactOffset x dir) / I x contactOffset) . dir
      denominatorAlong(co, dir) ==
        (1000 * Unit) \div state.mass
        + VDot(VCross(co, VDivComp(VCross(co, dir, 1), 10, I), 10000), dir, Unit)
      effectiveRestitution(c) == MulDiv(state.restitution, ExpNeg(Abs(c.vn) \div 20), Unit)
      jnOf(c, normal) == MulDiv(-(c.vn * 1000), Unit + effectiveRestitution(c),
                                denominatorAlong(c.contactOffset, normal))
      \* -tangentialSpeed / 0 is -Infinity, which the clamp turns into -maxFriction
      jtOf(c, maxFriction, denominatorT) ==
        IF c.speed > 100
          THEN Max(-maxFriction,
                   Min(maxFriction, IF denominatorT = 0 THEN -maxFriction
                                    ELSE MulDiv(-(c.speed * 1000), Unit, denominatorT)))
        ELSE 0
      \* velocity += impulse / mass, spin += (contactOffset x impulse) / I
      struck(s, co, J) ==
        [s EXCEPT !.velocity = VAdd(s.velocity, VScale(J, 1, s.mass)),
                  !.spin = VAdd(s.spin, VScale(torqueOverInertia(co, J, 100, s), 1, 1000))]
      frictionImpulse(c, jn, tangentDir) ==
        VScale(tangentDir,
               jtOf(c, MulDiv(Abs(jn), surfaceProps.friction, Unit),
                    denominatorAlong(c.contactOffset, tangentDir)), Unit)
      rubbed(s1, c, jn, tangentDir) ==
        IF c.speed > 100
          THEN struck(s1, c.contactOffset, frictionImpulse(c, jn, tangentDir))
        ELSE s1
      bounced(c, normal, jn) ==
        rubbed(struck(state, c.contactOffset, VScale(normal, jn, Unit)), c, jn,
               VNormalize(c.tangentialVel))
      response(c, normal) ==
        IF c.nan
          THEN [state EXCEPT !.velocity = NaNVec, !.spin = NaNVec,
                             !.position.y = state.radius.v]
        ELSE IF c.vn >= -100 THEN seated(state)
        ELSE seated(bounced(c, normal, jnOf(c, normal)))
      onNormal(normal) == response(contactKinematics(state, normal), normal)
  IN  onNormal(getGroundNormal(state.position.x, state.position.z))

(***************************************************************************)
(* The engine is a record                                                  *)
(*   [projectiles, records, idCounter, turbulence, globalTime,             *)
(*    surfaceProps, arrays, vectors]                                       *)
(* arrays and vectors are the heap: arrays[r] is the TelemetrySample[]     *)
(* with reference r, vectors[r] the Vector3 with reference r held by an    *)
(* EnvironmentState (CallerWind is the one of the caller's environment).   *)
(* The id `launch-${n}` is the number n.  Optional values carry a field    *)
(* defined.                                                                *)
(***************************************************************************)
CallerWind == 1

NoSummary ==
  [defined |-> FALSE, maxHeight |-> 0, totalRange |-> 0, flightTime |-> 0,
   impactSpeed |-> 0, nan |-> FALSE]

\* data/forceProfiles.ts: impulseVector(strength, elevation, azimuth); angles in
\* degrees, strength and result in micro-newton
impulseVector(strength, elevation, azimuth) ==
  LET elevRad    == MulDiv(elevation, 3141593, 180)
      azimuthRad == MulDiv(azimuth, 3141593, 180)
      dir == Vec(MulDiv(Cos(elevRad), Cos(azimuthRad), Unit), Sin(elevRad),
                 MulDiv(Cos(elevRad), Sin(azimuthRad), Unit))
  IN  VScale(dir, strength, Unit)

\* Math.sin(Math.min(t / duration, 1) * Math.PI), in 1e-4
easeImpulse(t, duration) == Sin(MulDiv(3141593, Min(t, duration), duration))

\* ForceProfile.impulse(t) of the catalog's profiles
impulse(profile, t) ==
  impulseVector(MulDiv(profile.strength, easeImpulse(t, profile.duration), Unit),
                profile.elevation, profile.azimuth)

\* a variant of TelemetrySample that stamps the sample with the telemetry timer
TelemetrySampleAtTimer(projectile) ==
  LET st == projectile.state
      finiteP == ~st.position.nan
      finiteV == ~st.velocity.nan
  IN  [time      |-> projectile.telemetryTimer,
       altitude  |-> st.position.y,
       range     |-> IF finiteP THEN VLen(Vec(st.position.x, 0, st.position.z)) ELSE 0,
       speed     |-> IF finiteV THEN VLen(st.velocity) ELSE 0,
       velocityX |-> st.velocity.x, velocityY |-> st.velocity.y,
       velocityZ |-> st.velocity.z,
       positionX |-> st.position.x, positionZ |-> st.position.z,
       positionNaN |-> ~finiteP, velocityNaN |-> ~finiteV]

TelemetrySample(projectile) ==
  LET st == projectile.state
      finiteP == ~st.position.nan
      finiteV == ~st.velocity.nan
  IN  [time      |-> projectile.elapsed,
       altitude  |-> st.position.y,
       range     |-> IF finiteP THEN VLen(Vec(st.position.x, 0, st.position.z)) ELSE 0,
       speed     |-> IF finiteV THEN VLen(st.velocity) ELSE 0,
       velocityX |-> st.velocity.x, velocityY |-> st.velocity.y,
       velocityZ |-> st.velocity.z,
       positionX |-> st.position.x, positionZ |-> st.position.z,
       positionNaN |-> ~finiteP, velocityNaN |-> ~finiteV]

RECURSIVE MaxOf(_, _, _)
\* samples.reduce((max, sample) => Math.max(max, sample[field]), 0) from index i on
MaxOf(samples, field, i) ==
  IF i > Len(samples) THEN 0
  ELSE Max(IF field = "altitude" THEN samples[i].altitude ELSE samples[i].range,
           MaxOf(samples, field, i + 1))

\* a variant of buildSummary that gives no summary to a flight without telemetry
summaryOfSamples(projectile, samples) ==
  IF Len(samples) = 0 THEN NoSummary
  ELSE [defined     |-> TRUE,
        maxHeight   |-> MaxOf(samples, "altitude", 1),
        totalRange  |-> MaxOf(samples, "range", 1),
        flightTime  |-> samples[Len(samples)].time,
        impactSpeed |-> VLen(projectile.state.velocity),
        nan         |-> \E i \in 1..Len(samples) : samples[i].positionNaN]

buildSummary(projectile, samples) ==
  [defined     |-> TRUE,
   maxHeight   |-> MaxOf(samples, "altitude", 1),
   totalRange  |-> MaxOf(samples, "range", 1),
   flightTime  |-> IF Len(samples) > 0 THEN samples[Len(samples)].time
                   ELSE projectile.elapsed,
   impactSpeed |-> VLen(projectile.state.velocity),
   \* Math.max with a NaN operand is NaN
   nan         |-> \E i \in 1..Len(samples) : samples[i].positionNaN]

\* a variant of applyProfile that does not look at manualConfig
applyProfileAlways(projectile, dt) ==
  LET profile == projectile.params.profile
      st      == projectile.state
      acceleration(force) == VScale(force, 1, st.mass)
      pushed(force) == IF ~IsZero(force)
                         THEN VAdd(st.velocity, VScale(acceleration(force), dt, 100))
                       ELSE st.velocity
      velocity == pushed(impulse(profile, projectile.elapsed))
      spin     == VAdd(st.spin, VScale(VScale(profile.spinAxis, profile.spinRate, Unit),
                                       dt, 1000))
  IN  IF projectile.elapsed <= profile.duration
        THEN [projectile EXCEPT !.state.velocity = velocity, !.state.spin = spin,
                                !.profileSteps = @ + 1]
      ELSE projectile

\* a variant of applyProfile that tests the window on the elapsed time before
\* the sub-step
applyProfileBefore(projectile, dt) ==
  LET profile == projectile.params.profile
      st      == projectile.state
      acceleration(force) == VScale(force, 1, st.mass)
      pushed(force) == IF ~IsZero(force)
                         THEN VAdd(st.velocity, VScale(acceleration(force), dt, 100))
                       ELSE st.velocity
      velocity == pushed(impulse(profile, projectile.elapsed))
      spin     == VAdd(st.spin, VScale(VScale(profile.spinAxis, profile.spinRate, Unit),
                                       dt, 1000))
  IN  IF ~projectile.params.manualConfig.defined
         /\ projectile.elapsed - dt <= profile.duration
        THEN [projectile EXCEPT !.state.velocity = velocity, !.state.spin = spin,
                                !.profileSteps = @ + 1]
      ELSE projectile

\* the profile's force and spin increment of lines 247-254
applyProfile(projectile, dt) ==
  LET profile == projectile.params.profile
      st      == projectile.state
      acceleration(force) == VScale(force, 1, st.mass)
      pushed(force) == IF ~IsZero(force)
                         THEN VAdd(st.velocity, VScale(acceleration(force), dt, 100))
                       ELSE st.velocity
      velocity == pushed(impulse(profile, projectile.elapsed))
      spin     == VAdd(st.spin, VScale(VScale(profile.spinAxis, profile.spinRate, Unit),
                                       dt, 1000))
  IN  IF ~projectile.params.manualConfig.defined /\ projectile.elapsed <= profile.duration
        THEN [projectile EXCEPT !.state.velocity = velocity, !.state.spin = spin,
                                !.profileSteps = @ + 1]
      ELSE projectile

\* a variant of advanceState that leaves out the ground contact forces
advanceStateAirborne(projectile, engine, dt) ==
  LET st0      == projectile.state
      envOf(w) == [gravity |-> projectile.environment.gravity,
                   airDensity |-> projectile.environment.airDensity, windVector |-> w]
      baseWind == engine.vectors[projectile.environment.windVector]
      turbulentWind == getTurbulence(engine.turbulence, st0.position, baseWind)
      gust     == addGust(st0.position, engine.globalTime)
      isGrounded == ~st0.position.nan
                    /\ st0.position.y - st0.radius.v <= GROUND_CONTACT_TOLERANCE
      st1 == st0
      angularAccel(st2) == VDivComp(aerodynamicTorque(st2, envOf(baseWind)), 1000,
                                    st2.momentOfInertia)
      spun(st2)   == [st2 EXCEPT !.spin = VAdd(st2.spin, VScale(angularAccel(st2), dt, 1000))]
      turned(st3) == integrateRotation(integrateSpin(st3, dt), dt)
      floored(st4) == IF ~st4.position.nan /\ st4.position.y < st4.radius.v
                        THEN [st4 EXCEPT !.position.y = st4.radius.v]
                      ELSE st4
      st5 == floored(turned(spun(rk4Integrate(st1, envOf(VAdd(turbulentWind, gust)), dt))))
  IN  [projectile EXCEPT !.state = st5, !.isGrounded = isGrounded]

\* lines 256-293: wind, ground contact, RK4, torque, spin, rotation, floor
advanceState(projectile, engine, dt) ==
  LET st0      == projectile.state
      envOf(w) == [gravity |-> projectile.environment.gravity,
                   airDensity |-> projectile.environment.airDensity, windVector |-> w]
      baseWind == engine.vectors[projectile.environment.windVector]
      turbulentWind == getTurbulence(engine.turbulence, st0.position, baseWind)
      gust     == addGust(st0.position, engine.globalTime)
      isGrounded == ~st0.position.nan
                    /\ st0.position.y - st0.radius.v <= GROUND_CONTACT_TOLERANCE
      st1 == IF isGrounded /\ ~st0.velocity.nan /\ st0.velocity.y <= 1000
               THEN applyGroundContactForces(st0, projectile.environment, dt)
             ELSE st0
      angularAccel(st2) == VDivComp(aerodynamicTorque(st2, envOf(baseWind)), 1000,
                                    st2.momentOfInertia)
      spun(st2)   == [st2 EXCEPT !.spin = VAdd(st2.spin, VScale(angularAccel(st2), dt, 1000))]
      turned(st3) == integrateRotation(integrateSpin(st3, dt), dt)
      floored(st4) == IF ~st4.position.nan /\ st4.position.y < st4.radius.v
                        THEN [st4 EXCEPT !.position.y = st4.radius.v]
                      ELSE st4
      st5 == floored(turned(spun(rk4Integrate(st1, envOf(VAdd(turbulentWind, gust)), dt))))
  IN  [projectile EXCEPT !.state = st5, !.isGrounded = isGrounded]

\* a variant of collideAndSettle whose rest test looks at the vertical speed only
collideAndSettleVertical(projectile, engine) ==
  LET st  == projectile.state
      hit == ~st.position.nan /\ st.position.y <= st.radius.v
             /\ ~st.velocity.nan /\ st.velocity.y < -1000
      atRest(st1) == ~st1.velocity.nan /\ Abs(st1.velocity.y) < REST_THRESHOLD
      settled(p1) == IF atRest(p1.state)
                       THEN [p1 EXCEPT !.active = FALSE,
                                       !.summary = buildSummary(p1, engine.arrays[p1.samples])]
                     ELSE p1
  IN  IF ~hit THEN projectile
      ELSE settled([projectile EXCEPT
                      !.state = handleGroundCollision(st, engine.surfaceProps)])

\* lines 295-302: the collision response and the rest test
collideAndSettle(projectile, engine) ==
  LET st  == projectile.state
      hit == ~st.position.nan /\ st.position.y <= st.radius.v
             /\ ~st.velocity.nan /\ st.velocity.y < -1000
      atRest(st1) == ~st1.velocity.nan /\ Abs(st1.velocity.y) < REST_THRESHOLD
                     /\ VLen(st1.velocity) < REST_THRESHOLD
      settled(p1) == IF atRest(p1.state)
                       THEN [p1 EXCEPT !.active = FALSE,
                                       !.summary = buildSummary(p1, engine.arrays[p1.samples])]
                     ELSE p1
  IN  IF ~hit THEN projectile
      ELSE settled([projectile EXCEPT
                      !.state = handleGroundCollision(st, engine.surfaceProps)])

\* the index of the first record with the id, 0 if there is none
RECURSIVE FindRecord(_, _, _)
FindRecord(records, id, i) ==
  IF i > Len(records) THEN 0
  ELSE IF records[i].id = id THEN i
  ELSE FindRecord(records, id, i + 1)

\* a variant of integrateProjectile that leaves the turbulent wind with its gust
\* in the environment of the projectile
integrateProjectileGusty(engine, i, dt) ==
  LET projectile == engine.projectiles[i]
      p1 == [projectile EXCEPT !.elapsed = @ + dt, !.telemetryTimer = @ + dt]
      \* environment.windVector = baseWind, a fresh clone of the vector it held
      shared  == projectile.environment.windVector = CallerWind
      base    == engine.vectors[projectile.environment.windVector]
      gusty   == VAdd(getTurbulence(engine.turbulence, projectile.state.position, base),
                      addGust(projectile.state.position, engine.globalTime))
      vectors == IF shared
                   THEN Append(engine.vectors, gusty)
                 ELSE [engine.vectors EXCEPT ![projectile.environment.windVector] = gusty]
      ownWind(p3) == IF shared THEN [p3 EXCEPT !.environment.windVector = Len(vectors)]
                     ELSE p3
      push(p5) == p5.telemetryTimer >= TELEMETRY_INTERVAL
      sampled(p5) == IF push(p5) THEN [p5 EXCEPT !.telemetryTimer = 0] ELSE p5
      arrays(p5, p6) ==
        IF push(p5)
          THEN [engine.arrays EXCEPT ![p6.samples] = Append(@, TelemetrySample(p6))]
        ELSE engine.arrays
      records(p6) ==
        LET r == FindRecord(engine.records, p6.id, 1)
        IN  IF ~p6.active /\ r > 0
              THEN [engine.records EXCEPT ![r].summary = p6.summary]
            ELSE engine.records
      stored(p5, p6) == [engine EXCEPT !.projectiles[i] = p6, !.arrays = arrays(p5, p6),
                                       !.records = records(p6), !.vectors = vectors]
      finished(p5) == stored(p5, sampled(p5))
  IN  IF ~projectile.active THEN engine
      ELSE finished(collideAndSettle(
                      ownWind(advanceState(applyProfile(p1, dt), engine, dt)), engine))

\* integrateProjectile(projectile, dt) for the projectile at index i
integrateProjectile(engine, i, dt) ==
  LET projectile == engine.projectiles[i]
      p1 == [projectile EXCEPT !.elapsed = @ + dt, !.telemetryTimer = @ + dt]
      \* environment.windVector = baseWind, a fresh clone of the vector it held
      shared  == projectile.environment.windVector = CallerWind
      vectors == IF shared
                   THEN Append(engine.vectors, engine.vectors[CallerWind])
                 ELSE engine.vectors
      ownWind(p3) == IF shared THEN [p3 EXCEPT !.environment.windVector = Len(vectors)]
                     ELSE p3
      push(p5) == p5.telemetryTimer >= TELEMETRY_INTERVAL
      sampled(p5) == IF push(p5) THEN [p5 EXCEPT !.telemetryTimer = 0] ELSE p5
      arrays(p5, p6) ==
        IF push(p5)
          THEN [engine.arrays EXCEPT ![p6.samples] = Append(@, TelemetrySample(p6))]
        ELSE engine.arrays
      records(p6) ==
        LET r == FindRecord(engine.records, p6.id, 1)
        IN  IF ~p6.active /\ r > 0
              THEN [engine.records EXCEPT ![r].summary = p6.summary]
            ELSE engine.records
      stored(p5, p6) == [engine EXCEPT !.projectiles[i] = p6, !.arrays = arrays(p5, p6),
                                       !.records = records(p6), !.vectors = vectors]
      finished(p5) == stored(p5, sampled(p5))
  IN  IF ~projectile.active THEN engine
      ELSE finished(collideAndSettle(
                      ownWind(advanceState(applyProfile(p1, dt), engine, dt)), engine))

\* a variant of nextId that numbers a launch by the projectiles in flight
idFromLength(engine) == Len(engine.projectiles)

\* line 89: the number n of the id `launch-n` the next launch gets
nextId(engine) == engine.idCounter

\* a variant of cloneEnvironment that keeps the caller's wind vector
shareEnvironment(callerEnv, fresh) ==
  [gravity |-> callerEnv.gravity, airDensity |-> callerEnv.airDensity,
   windVector |-> callerEnv.windVector]

\* lines 140-144: envCopy; fresh is the address of windVector.clone()
cloneEnvironment(callerEnv, fresh) ==
  [gravity |-> callerEnv.gravity, airDensity |-> callerEnv.airDensity,
   windVector |-> fresh]

\* launch(params); callerEnv is params.environment
launch(engine, params, callerEnv) ==
  LET id == nextId(engine)
      launchPos == IF params.profile.launchPosition.defined
                     THEN params.profile.launchPosition.v
                   ELSE Vec(0, 12000000, 0)
      state == [position        |-> launchPos,
                velocity        |-> ZeroVec,
                spin            |-> VScale(params.profile.spinAxis, params.profile.spinRate, Unit),
                rotation        |-> IdentityQuat,
                mass            |-> params.projectile.massKg,
                area            |-> params.projectile.referenceArea,
                dragCoefficient |-> params.projectile.dragCoefficient,
                spinDamping     |-> params.projectile.spinDamping,
                restitution     |-> params.projectile.restitution,
                momentOfInertia |-> params.projectile.momentOfInertia,
                radius          |-> Num(params.projectile.radius)]
      manual == params.manualConfig
      deltaV == VScale(manual.impulseVector, 1, state.mass)
      deltaOmega == VScale(torqueOverInertia(manual.applicationPoint, manual.impulseVector,
                                             100, state), 1, 1000)
      launched == IF manual.defined
                    THEN [state EXCEPT !.velocity = VAdd(state.velocity, deltaV),
                                       !.spin = VAdd(state.spin, deltaOmega)]
                  ELSE state
      vectors == Append(engine.vectors, engine.vectors[callerEnv.windVector])
      envCopy == cloneEnvironment(callerEnv, Len(vectors))
      arrays  == Append(engine.arrays, << >>)
      samples == Len(arrays)
      instance == [id |-> id, state |-> launched, environment |-> envCopy,
                   params |-> params, elapsed |-> 0, telemetryTimer |-> 0,
                   samples |-> samples, summary |-> NoSummary, active |-> TRUE,
                   isGrounded |-> FALSE, profileSteps |-> 0]
      record == [id |-> id, samples |-> samples, summary |-> NoSummary]
  IN  [engine EXCEPT !.idCounter = @ + 1, !.vectors = vectors, !.arrays = arrays,
                     !.projectiles = Append(@, instance),
                     !.records = Append(@, record)]

\* a variant of clampDelta without the upper bound
scaleDelta(dt) == (dt * 3) \div 2

\* lines 178-179: the frame delta times the speed multiplier 1.5, clamped
clampDelta(dt) == Min((dt * 3) \div 2, MAX_TIME_STEP)

\* the step the sub-step loop chooses (lines 189-200)
RECURSIVE minStepFrom(_, _)
minStepFrom(projectiles, i) ==
  IF i > Len(projectiles) THEN MAX_TIME_STEP
  ELSE LET p == projectiles[i]
           velStep == IF ~p.state.velocity.nan /\ VLen(p.state.velocity) > 500000
                        THEN MIN_TIME_STEP ELSE MIN_TIME_STEP * 2
           heightStep == IF ~p.state.position.nan /\ p.state.position.y < 2 * p.state.radius.v
                           THEN MIN_TIME_STEP ELSE MAX_TIME_STEP
           rest == minStepFrom(projectiles, i + 1)
       IN  IF p.active THEN Min(rest, Min(velStep, heightStep)) ELSE rest

\* a variant of chooseStep that ignores what is left of the frame
wholeStep(engine, accumulator) == minStepFrom(engine.projectiles, 1)

\* line 201: const step = Math.min(accumulator, minStep)
chooseStep(engine, accumulator) == Min(accumulator, minStepFrom(engine.projectiles, 1))

\* a variant of integrateAll that advances the turbulence field per projectile
RECURSIVE integrateEachAfterTick(_, _, _, _)
integrateEachAfterTick(engine, order, k, step) ==
  IF k > Len(order) THEN engine
  ELSE integrateEachAfterTick(
         [integrateProjectile(engine, order[k], step)
            EXCEPT !.turbulence.time = @ + step * 500],
         order, k + 1, step)

\* projectiles.forEach(p => integrateProjectile(p, step)) in the given order
RECURSIVE integrateAll(_, _, _, _)
integrateAll(engine, order, k, step) ==
  IF k > Len(order) THEN engine
  ELSE integrateAll(integrateProjectile(engine, order[k], step), order, k + 1, step)

\* one pass of the while loop: the engine after it
subStep(engine, accumulator) ==
  integrateAll(engine, [k \in 1..Len(engine.projectiles) |-> k], 1,
               chooseStep(engine, accumulator))

\* a variant of filterActive that drops nothing
keepAll(projectiles) == projectiles

\* this.projectiles.filter(p => p.active)
filterActive(projectiles) == SelectSeq(projectiles, LAMBDA p : p.active)

\* getActiveProjectiles(): the ids returned
getActiveProjectiles(engine) ==
  LET active == filterActive(engine.projectiles)
  IN  [k \in 1..Len(active) |-> active[k].id]

getLaunchRecords(engine) == engine.records

(***************************************************************************)
(* The callers of the engine: what main.ts passes to launch() and update() *)
(***************************************************************************)
\* a ball of 0.45 kg and radius 0.11 m with I = 0.4 m r^2 and restitution 0.08
ball ==
  [massKg |-> 450, referenceArea |-> 38013, dragCoefficient |-> 3200,
   spinDamping |-> 9000, restitution |-> 800,
   momentOfInertia |-> Vec(21780, 21780, 21780), radius |-> 1100000]

NoPosition == [defined |-> FALSE, v |-> ZeroVec]

At(x, y, z) == [defined |-> TRUE, v |-> Vec(x, y, z)]

NoManual == [defined |-> FALSE, impulseVector |-> ZeroVec, applicationPoint |-> ZeroVec]

\* a 25 N push over 60 ms at 35 degrees, without spin
push(launchPosition) ==
  [duration |-> 60, strength |-> 25000000, elevation |-> 35, azimuth |-> 4,
   spinAxis |-> Vec(0, 0, Unit), spinRate |-> 0, launchPosition |-> launchPosition]

\* the same push with the cannon's spin of 6 rad/s
spinPush == [push(NoPosition) EXCEPT !.spinRate = 6000]

\* a downward impulse of 0.54 kg m/s through the centre of mass
downward == [defined |-> TRUE, impulseVector |-> Vec(0, -5400000, 0),
             applicationPoint |-> ZeroVec]

LaunchOptions ==
  { \* pushed by its profile from the default position
    [profile |-> push(NoPosition), projectile |-> ball, manualConfig |-> NoManual],
    \* struck off-centre: 0.6 kg m/s along x and y, 5 cm from the centre along z
    [profile |-> spinPush, projectile |-> ball,
     manualConfig |-> [defined |-> TRUE, impulseVector |-> Vec(6000000, 6000000, 0),
                       applicationPoint |-> Vec(0, 0, 5000)]],
    \* thrown straight down from 5.5 mm above the ground, at two places
    [profile |-> push(At(-40000000, 1155000, 15000000)), projectile |-> ball,
     manualConfig |-> downward],
    [profile |-> push(At(0, 1155000, 0)), projectile |-> ball,
     manualConfig |-> downward] }

\* data/environmentPresets.ts: 'lunar-night' and 'thin-peak'
EnvironmentPresets ==
  << [gravity |-> 9810, airDensity |-> 9200, wind |-> Vec(20000, 0, -15000)],
     [gravity |-> 9300, airDensity |-> 7400, wind |-> Vec(40000, 0, 0)] >>

\* the frame deltas passed to update(), in ms
DtInputs == {-2, 0, 8, 40}

\* the seeds Math.random() gives the three noise sources
NoiseSeeds == { <<17, 42, 91>> }

\* launch() is called at most this many times
MaxLaunches == 2

\* simulated time, in ms, after which update() is no longer called with new input
MaxSimTime == 80

\* simulated time, in ms, up to which launches and short frames happen
LaunchWindow == 20

\* update() calls whose frame delta is not clamped to MAX_TIME_STEP
MaxIrregularFrames == 1

\* probe holds the arguments and the result of one call of a function of the
\* physics modules made outside the frame loop
VARIABLES engine, callerEnv, pc, accumulator, steps, calls, probe

vars == <<engine, callerEnv, pc, accumulator, steps, calls, probe>>

NoProbe == [op |-> "none"]

\* the engine and its caller after construction
EngineInit ==
  /\ \E seeds \in NoiseSeeds :
       engine = [projectiles |-> << >>, records |-> << >>, idCounter |-> 0,
                 turbulence |-> [noiseX |-> seeds[1], noiseY |-> seeds[2],
                                 noiseZ |-> seeds[3], time |-> 0],
                 globalTime |-> 0,
                 surfaceProps |-> [friction |-> 6000, restitution |-> 5000],
                 arrays |-> << >>,
                 vectors |-> << EnvironmentPresets[1].wind >>]
  /\ callerEnv = [gravity |-> EnvironmentPresets[1].gravity,
                  airDensity |-> EnvironmentPresets[1].airDensity,
                  windVector |-> CallerWind]
  /\ pc = "idle"
  /\ accumulator = 0
  /\ steps = << >>
  /\ calls = [advanced |-> 0, irregular |-> 0, dt |-> 0]

Init == EngineInit /\ probe = NoProbe

\* engine.launch(params) with the caller's environment object
LaunchFrom(options) ==
  /\ pc = "idle"
  /\ engine.idCounter < MaxLaunches
  /\ calls.advanced <= LaunchWindow
  /\ \E params \in options : engine' = launch(engine, params, callerEnv)
  /\ UNCHANGED <<callerEnv, pc, accumulator, steps, calls, probe>>

Launch == LaunchFrom(LaunchOptions)

\* the caller writes the next preset into its environment object, the wind in place
MutateEnvironment ==
  /\ pc = "idle"
  /\ Len(engine.projectiles) > 0
  /\ \E k \in 2..Len(EnvironmentPresets) :
       /\ callerEnv.gravity = EnvironmentPresets[k - 1].gravity
       /\ callerEnv' = [callerEnv EXCEPT !.gravity = EnvironmentPresets[k].gravity,
                                         !.airDensity = EnvironmentPresets[k].airDensity]
       /\ engine' = [engine EXCEPT !.vectors[CallerWind] = EnvironmentPresets[k].wind]
  /\ UNCHANGED <<pc, accumulator, steps, calls, probe>>

\* update(dt) up to the sub-step loop (lines 177-186)
FrameWithin(dt, horizon) ==
  LET clamped == clampDelta(dt)
      regular == clamped = MAX_TIME_STEP
  IN  /\ pc = "idle"
      /\ regular \/ (calls.irregular < MaxIrregularFrames
                     /\ calls.advanced <= LaunchWindow)
      /\ calls.advanced + Max(clamped, 0) <= horizon
      /\ engine' = [engine EXCEPT !.turbulence.time = @ + clamped * 500,
                                  !.globalTime = @ + clamped]
      /\ accumulator' = clamped
      /\ calls' = [calls EXCEPT !.advanced = @ + Max(clamped, 0),
                                !.irregular = IF regular THEN @ ELSE @ + 1,
                                !.dt = dt]
      /\ pc' = "loop"
      /\ steps' = << >>
      /\ UNCHANGED <<callerEnv, probe>>

Frame(dt) == FrameWithin(dt, MaxSimTime)

UpdateBegin == \E dt \in DtInputs : Frame(dt)

\* one pass of the while loop (lines 187-203)
SubStep ==
  /\ pc = "loop"
  /\ accumulator > 0
  /\ engine' = subStep(engine, accumulator)
  /\ accumulator' = accumulator - chooseStep(engine, accumulator)
  /\ steps' = Append(steps, chooseStep(engine, accumulator))
  /\ UNCHANGED <<callerEnv, pc, calls, probe>>

\* the end of update(): the loop has ended, the settled projectiles are dropped
UpdateEnd ==
  /\ pc = "loop"
  /\ accumulator <= 0
  /\ engine' = [engine EXCEPT !.projectiles = filterActive(@)]
  /\ pc' = "idle"
  /\ UNCHANGED <<callerEnv, accumulator, steps, calls, probe>>

Next == Launch \/ MutateEnvironment \/ UpdateBegin \/ SubStep \/ UpdateEnd

Spec == Init /\ [][Next]_vars

(***************************************************************************)
(* The frame loop runs for ever.  Past MaxSimTime the model follows it     *)
(* only while every projectile in the engine has a NaN position and        *)
(* velocity: nothing integrateProjectile computes for such a projectile    *)
(* depends on the clocks, which are then held at their values.             *)
(***************************************************************************)
DownwardOptions == {params \in LaunchOptions : params.manualConfig = downward}

GroundLaunch == LaunchFrom(DownwardOptions)

Stalled ==
  \A i \in 1..Len(engine.projectiles) :
     /\ engine.projectiles[i].state.position.nan
     /\ engine.projectiles[i].state.velocity.nan

\* the engine after a sub-step, with the clocks and the telemetry of before
holdClocks(before, after) ==
  [after EXCEPT !.arrays = before.arrays,
                !.projectiles =
                   [k \in 1..Len(after.projectiles) |->
                      [after.projectiles[k] EXCEPT
                         !.elapsed = before.projectiles[k].elapsed,
                         !.telemetryTimer = before.projectiles[k].telemetryTimer]]]

\* update(dt) with a full frame delta, up to the loop
SteadyBegin ==
  /\ pc = "idle"
  /\ calls.advanced + MAX_TIME_STEP > MaxSimTime
  /\ Stalled
  /\ pc' = "steady"
  /\ accumulator' = MAX_TIME_STEP
  /\ steps' = << >>
  /\ calls' = [calls EXCEPT !.dt = 2 * MAX_TIME_STEP]
  /\ UNCHANGED <<engine, callerEnv, probe>>

SteadyStep ==
  /\ pc = "steady"
  /\ accumulator > 0
  /\ engine' = holdClocks(engine, subStep(engine, accumulator))
  /\ accumulator' = accumulator - chooseStep(engine, accumulator)
  /\ steps' = Append(steps, chooseStep(engine, accumulator))
  /\ UNCHANGED <<callerEnv, pc, calls, probe>>

SteadyEnd ==
  /\ pc = "steady"
  /\ accumulator <= 0
  /\ engine' = [engine EXCEPT !.projectiles = filterActive(@)]
  /\ pc' = "idle"
  /\ UNCHANGED <<callerEnv, accumulator, steps, calls, probe>>

\* an update() call that advances the simulation
PositiveFrame == (\E dt \in DtInputs : dt > 0 /\ Frame(dt)) \/ SteadyBegin

FairNext ==
  GroundLaunch \/ UpdateBegin \/ SubStep \/ UpdateEnd
  \/ SteadyBegin \/ SteadyStep \/ SteadyEnd

\* the while loop of update() runs its next pass
LoopPass ==
  /\ pc \in {"loop", "steady"}
  /\ accumulator > 0
  /\ accumulator' = accumulator - chooseStep(engine, accumulator)

\* requestAnimationFrame keeps calling update(), and update() runs to its end
FairSpec ==
  /\ Init
  /\ [][FairNext]_vars
  /\ WF_vars(PositiveFrame)
  /\ WF_accumulator(LoopPass)
  /\ WF_vars(UpdateEnd) /\ WF_vars(SteadyEnd)

record(n) == engine.records[n + 1]

\* the projectile launch-n is in the engine's list and active
InFlight(n) ==
  \E i \in 1..Len(engine.projectiles) :
     engine.projectiles[i].id = n /\ engine.projectiles[i].active

\* launch-n was launched with no velocity but a downward one, onto the ground
LaunchedDownward(n) ==
  /\ n < engine.idCounter
  /\ \E i \in 1..Len(engine.projectiles) :
       LET p == engine.projectiles[i]
       IN  /\ p.id = n
           /\ p.params.manualConfig.defined
           /\ p.params.manualConfig.impulseVector.x = 0
           /\ p.params.manualConfig.impulseVector.z = 0
           /\ p.params.manualConfig.impulseVector.y <= 0
           /\ p.params.projectile.restitution < Unit

\* launch-n is in the Settled state
Settled(n) ==
  /\ n < engine.idCounter
  /\ ~InFlight(n)
  /\ record(n).summary.defined

\* C1: a projectile launched with a downward-only velocity onto the ground with
\* restitution below 1 reaches the Settled state after finitely many update()
\* calls with dt > 0
C1_RestConvergence ==
  \A n \in 0..(MaxLaunches - 1) : LaunchedDownward(n) ~> Settled(n)

(***************************************************************************)
(* Launch records and the Settled state                                    *)
(***************************************************************************)
Range(seq) == {seq[k] : k \in 1..Len(seq)}

\* the indices in the engine's list of the projectiles with id launch-n
instancesOf(n) == {i \in 1..Len(engine.projectiles) : engine.projectiles[i].id = n}

SummaryMatchesActive ==
  \A k \in 1..Len(engine.records) :
     LET r == engine.records[k]
     IN  /\ \A i \in instancesOf(r.id) :
               r.summary.defined <=> ~engine.projectiles[i].active
         /\ instancesOf(r.id) = {} => r.summary.defined

SummaryKept ==
  \A k \in 1..Len(engine.records) :
     engine.records[k].summary.defined
       => /\ k <= Len(engine'.records)
          /\ engine'.records[k].summary = engine.records[k].summary

\* C2: a record's summary is undefined while its projectile is active, is
\* defined from the sub-step on in which the projectile becomes inactive, and
\* once defined is never assigned again
C2_SummaryOnce == []SummaryMatchesActive /\ [][SummaryKept]_vars

\* a projectile has settled in a sub-step and the loop goes on
C2_Witness ==
  /\ pc = "loop"
  /\ accumulator > 0
  /\ \E i \in 1..Len(engine.projectiles) :
       /\ ~engine.projectiles[i].active
       /\ record(engine.projectiles[i].id).summary.defined
       /\ record(engine.projectiles[i].id).summary.impactSpeed > 0

SettledOutOfReach ==
  /\ pc = "idle" => \A i \in 1..Len(engine.projectiles) : engine.projectiles[i].active
  /\ \A k \in 1..Len(getLaunchRecords(engine)) :
       getLaunchRecords(engine)[k].summary.defined
         => getLaunchRecords(engine)[k].id \notin Range(getActiveProjectiles(engine))

SettledFrozen ==
  /\ \A i \in 1..Len(engine.projectiles) :
       ~engine.projectiles[i].active
         => \/ /\ pc' = "idle"
               /\ \A j \in 1..Len(engine'.projectiles) :
                     engine'.projectiles[j].id # engine.projectiles[i].id
            \/ /\ pc' # "idle"
               /\ i <= Len(engine'.projectiles)
               /\ engine'.projectiles[i] = engine.projectiles[i]
  /\ \A k \in 1..Len(engine.records) :
       engine.records[k].summary.defined
         => /\ k <= Len(getLaunchRecords(engine)')
            /\ getLaunchRecords(engine)'[k] = engine.records[k]
            /\ engine'.arrays[engine.records[k].samples]
                 = engine.arrays[engine.records[k].samples]

\* C3: once a projectile is inactive no sub-step changes its state, elapsed
\* time, telemetry timer or samples or makes it active again, it is not among
\* getActiveProjectiles(), it has left the engine's list when update() returns,
\* and its record stays in getLaunchRecords()
C3_SettledTerminal == []SettledOutOfReach /\ [][SettledFrozen]_vars

\* update() has returned: one launch has settled and left, another is in flight
C3_Witness ==
  /\ pc = "idle"
  /\ Len(engine.projectiles) > 0
  /\ \E k \in 1..Len(engine.records) :
       /\ engine.records[k].summary.defined
       /\ instancesOf(engine.records[k].id) = {}

RecordPerLaunch ==
  /\ Len(getLaunchRecords(engine)) = engine.idCounter
  /\ \A k \in 1..Len(getLaunchRecords(engine)) : getLaunchRecords(engine)[k].id = k - 1
  /\ \A i \in 1..Len(engine.projectiles) :
       LET p == engine.projectiles[i]
           own == {k \in 1..Len(getLaunchRecords(engine)) :
                     getLaunchRecords(engine)[k].id = p.id}
       IN  p.active => /\ Cardinality(own) = 1
                       /\ \A k \in own : getLaunchRecords(engine)[k].samples = p.samples

RecordsGrow ==
  /\ Len(getLaunchRecords(engine)') >= Len(getLaunchRecords(engine))
  /\ \A k \in 1..Len(getLaunchRecords(engine)) :
       /\ getLaunchRecords(engine)'[k].id = getLaunchRecords(engine)[k].id
       /\ getLaunchRecords(engine)'[k].samples = getLaunchRecords(engine)[k].samples

\* C4: getLaunchRecords() holds one record per launch() call, the k-th with id
\* launch-(k-1), it never shrinks or reorders, and the id of an active projectile
\* is that of exactly one record, which holds the projectile's own samples array
C4_RecordsInOrder == []RecordPerLaunch /\ [][RecordsGrow]_vars

\* a launch made after another projectile has left the list, with telemetry
C4_Witness ==
  /\ engine.idCounter = 2
  /\ Len(engine.projectiles) = 1
  /\ engine.projectiles[1].active
  /\ engine.projectiles[1].id = 1
  /\ engine.projectiles[1].elapsed > 0

EnvironmentApart ==
  \A i \in 1..Len(engine.projectiles) :
     engine.projectiles[i].environment.windVector # callerEnv.windVector

EnvironmentKept ==
  \A i \in 1..Len(engine.projectiles) :
     \A j \in 1..Len(engine'.projectiles) :
        LET p == engine.projectiles[i]
            q == engine'.projectiles[j]
        IN  q.id = p.id
              => /\ q.environment.gravity = p.environment.gravity
                 /\ q.environment.airDensity = p.environment.airDensity
                 /\ engine'.vectors[q.environment.windVector]
                      = engine.vectors[p.environment.windVector]

\* C5: what the caller does to the environment object after launch(), and the
\* environment of a later launch, leave the gravity, air density and base wind
\* of a projectile in flight as they were
C5_PrivateEnvironment == []EnvironmentApart /\ [][EnvironmentKept]_vars

\* two projectiles in flight under different environments
C5_Witness ==
  /\ Len(engine.projectiles) = 2
  /\ engine.projectiles[1].elapsed > 0
  /\ engine.projectiles[1].environment.gravity # engine.projectiles[2].environment.gravity
  /\ engine.vectors[engine.projectiles[1].environment.windVector]
       # engine.vectors[callerEnv.windVector]

(***************************************************************************)
(* The frame delta and the sub-steps                                       *)
(***************************************************************************)
RECURSIVE SumSeq(_, _)
SumSeq(seq, k) == IF k > Len(seq) THEN 0 ELSE seq[k] + SumSeq(seq, k + 1)

\* the while loop of update() has ended
LoopDone == pc = "loop" /\ accumulator <= 0

FrameClamped ==
  LoopDone =>
    /\ SumSeq(steps, 1) <= MAX_TIME_STEP
    /\ calls.dt > 0 =>
         SumSeq(steps, 1) = (IF 3 * calls.dt >= 2 * MAX_TIME_STEP THEN MAX_TIME_STEP
                             ELSE (3 * calls.dt) \div 2)

ElapsedFollows ==
  (pc = "loop" /\ pc' = "loop")
    => \A i \in 1..Len(engine.projectiles) :
          engine'.projectiles[i].elapsed
            = engine.projectiles[i].elapsed
              + (IF engine.projectiles[i].active THEN steps'[Len(steps')] ELSE 0)

\* C6: the sub-steps of one update(dt) add up to at most MAX_TIME_STEP, to
\* min(1.5 dt, MAX_TIME_STEP) when dt > 0, and each of them is added to the
\* elapsed time of every projectile that is active
C6_FrameClamp == []FrameClamped /\ [][ElapsedFollows]_vars

\* a stalled frame of 40 ms has been cut to 20 ms, run in several sub-steps
C6_Witness ==
  /\ LoopDone
  /\ calls.dt = 40
  /\ Len(steps) > 1
  /\ \E i \in 1..Len(engine.projectiles) :
       engine.projectiles[i].active /\ engine.projectiles[i].elapsed = MAX_TIME_STEP

\* C7: every sub-step of an update(dt) with dt > 0 is at least MIN_TIME_STEP and
\* at most MAX_TIME_STEP long, the last one of the frame included
C7_StepBounds ==
  calls.dt > 0 =>
    \A k \in 1..Len(steps) : MIN_TIME_STEP <= steps[k] /\ steps[k] <= MAX_TIME_STEP

\* C7 as the code has it: a sub-step is at most MAX_TIME_STEP and at most what
\* is left of the frame, and it is shorter than MIN_TIME_STEP only when it is
\* the last one and takes the rest of the frame
C7_StepBoundsButLast ==
  (pc = "loop" /\ Len(steps) > 0) =>
    /\ accumulator >= 0
    /\ \A k \in 1..Len(steps) :
         /\ 0 < steps[k] /\ steps[k] <= MAX_TIME_STEP
         /\ steps[k] < MIN_TIME_STEP => k = Len(steps) /\ accumulator = 0

\* update(0.008): a sub-step of 10 ms, then one of 2 ms
C7_Witness ==
  /\ pc = "loop"
  /\ calls.dt = 8
  /\ steps = <<2 * MIN_TIME_STEP, 2>>
  /\ Len(engine.projectiles) > 0

(***************************************************************************)
(* Projectiles in the same engine                                          *)
(***************************************************************************)
Orders(n) ==
  {order \in [1..n -> 1..n] : \A a, b \in 1..n : a # b => order[a] # order[b]}

\* C8: in every sub-step, integrating the projectiles in any order leaves each
\* of them, its samples and its record as integrating in registration order
C8_OrderIndependent ==
  [][(pc = "loop" /\ accumulator > 0) =>
       \A order \in Orders(Len(engine.projectiles)) :
          engine' = integrateAll(engine, order, 1, chooseStep(engine, accumulator))]_vars

\* a sub-step is about to integrate two projectiles whose states are numbers
C8_Witness ==
  /\ pc = "loop"
  /\ accumulator > 0
  /\ Len(engine.projectiles) = 2
  /\ \A i \in 1..2 : /\ engine.projectiles[i].active
                       /\ ~engine.projectiles[i].state.velocity.nan
                       /\ engine.projectiles[i].elapsed > 0

\* the engine with the projectile at index i as its only one
alone(i) == [engine EXCEPT !.projectiles = <<engine.projectiles[i]>>]

\* C9: the sub-step applied to a projectile, and so its state, elapsed time and
\* samples, are what they are when it is the only projectile in the engine
C9_Independent ==
  (pc = "loop" /\ accumulator > 0) =>
    \A i \in 1..Len(engine.projectiles) :
       engine.projectiles[i].active
         => /\ chooseStep(engine, accumulator) = chooseStep(alone(i), accumulator)
            /\ subStep(engine, accumulator).projectiles[i]
                 = subStep(alone(i), accumulator).projectiles[1]

(***************************************************************************)
(* Manual launches                                                         *)
(***************************************************************************)
\* I^-1 (r x J) in mrad/s: r in 1e-5 m, J in 1e-7 kg m/s, I in 1e-7 kg m^2
spinOfStrike(r, J, I) ==
  LET over(a, b, c) == MulDiv(MulDiv(a, b, 1000), 10, c)
  IN  Vec(over(r.y, J.z, I.x) - over(r.z, J.y, I.x),
          over(r.z, J.x, I.y) - over(r.x, J.z, I.y),
          over(r.x, J.y, I.z) - over(r.y, J.x, I.z))

\* C10: launch() leaves a manual launch with the velocity impulseVector / mass
\* and the spin of the profile plus I^-1 (applicationPoint x impulseVector), no
\* sub-step applies the profile's force or spin increment to it, and a launch
\* without manualConfig starts with zero velocity
C10_ManualOnce ==
  \A i \in 1..Len(engine.projectiles) :
     LET p      == engine.projectiles[i]
         manual == p.params.manualConfig
         axis   == p.params.profile.spinAxis
         rate   == p.params.profile.spinRate
         ofProfile == Vec((axis.x * rate) \div Unit, (axis.y * rate) \div Unit,
                          (axis.z * rate) \div Unit)
     IN  /\ manual.defined => p.profileSteps = 0
         /\ (manual.defined /\ p.elapsed = 0)
              => /\ p.state.velocity = Vec(manual.impulseVector.x \div p.state.mass,
                                           manual.impulseVector.y \div p.state.mass,
                                           manual.impulseVector.z \div p.state.mass)
                 /\ p.state.spin
                      = VAdd(ofProfile, spinOfStrike(manual.applicationPoint,
                                                     manual.impulseVector,
                                                     p.state.momentOfInertia))
         /\ (~manual.defined /\ p.elapsed = 0) => p.state.velocity = ZeroVec

\* a ball struck off-centre is in flight within the duration of its profile
\* next to a ball its profile has pushed
C10_Witness ==
  \E i, j \in 1..Len(engine.projectiles) :
     /\ engine.projectiles[i].params.manualConfig.defined
     /\ engine.projectiles[i].params.manualConfig.applicationPoint # ZeroVec
     /\ engine.projectiles[i].elapsed > 0
     /\ engine.projectiles[i].elapsed <= engine.projectiles[i].params.profile.duration
     /\ ~engine.projectiles[j].params.manualConfig.defined
     /\ engine.projectiles[j].profileSteps > 0

(***************************************************************************)
(* Telemetry: one kind of projectile followed for MaxTelemetryTime         *)
(***************************************************************************)
\* simulated time, in ms, up to which the telemetry of a flight is followed
MaxTelemetryTime == 200

PushedOptions == {params \in LaunchOptions : ~params.manualConfig.defined}

PushedLaunch == LaunchFrom(PushedOptions)

TelemetryBegin == \E dt \in DtInputs : FrameWithin(dt, MaxTelemetryTime)

TelemetryNext == PushedLaunch \/ TelemetryBegin \/ SubStep \/ UpdateEnd

TelemetrySpec == Init /\ [][TelemetryNext]_vars

\* the samples of the launch record r
samplesOf(r) == engine.arrays[engine.records[r].samples]

\* C11: in every record the k-th sample has the time k * TELEMETRY_INTERVAL,
\* whatever frame deltas update() was called with
C11_FixedCadence ==
  \A r \in 1..Len(engine.records) :
     \A k \in 1..Len(samplesOf(r)) : samplesOf(r)[k].time = k * TELEMETRY_INTERVAL

(***************************************************************************)
(* The ground                                                              *)
(***************************************************************************)
\* C12: after every sub-step every projectile that has been integrated is at
\* position.y >= radius (a comparison that is false for a NaN position)
C12_NoSinking ==
  \A i \in 1..Len(engine.projectiles) :
     LET st == engine.projectiles[i].state
     IN  engine.projectiles[i].elapsed > 0
           => ~st.position.nan /\ st.position.y >= st.radius.v

(***************************************************************************)
(* The surface of the ground                                               *)
(***************************************************************************)
SurfaceTypes == {"grass", "concrete", "dirt", "ice"}

\* the {friction, restitution} of setSurfaceType's switch, in 1e-4
surfaceOf(type) ==
  CASE type = "grass"    -> [friction |-> 6000, restitution |-> 5000]
    [] type = "concrete" -> [friction |-> 8000, restitution |-> 7000]
    [] type = "dirt"     -> [friction |-> 7000, restitution |-> 4000]
    [] type = "ice"      -> [friction |-> 1000, restitution |-> 9000]

setSurfaceType(e, type) == [e EXCEPT !.surfaceProps = surfaceOf(type)]

\* engine.setSurfaceType(type), called between two frames
SetSurfaceType ==
  /\ pc = "idle"
  /\ \E type \in SurfaceTypes :
       /\ engine.surfaceProps # surfaceOf(type)
       /\ engine' = setSurfaceType(engine, type)
  /\ UNCHANGED <<callerEnv, pc, accumulator, steps, calls, probe>>

SurfaceNext == SetSurfaceType \/ GroundLaunch \/ UpdateBegin \/ SubStep \/ UpdateEnd

SurfaceSpec == Init /\ [][SurfaceNext]_vars

\* the engine whose projectiles all have the restitution of the surface
withSurfaceRestitution(e) ==
  [e EXCEPT !.projectiles =
     [k \in 1..Len(e.projectiles) |->
        [e.projectiles[k] EXCEPT !.state.restitution = e.surfaceProps.restitution]]]

\* C13: every sub-step leaves every projectile with the velocity that the
\* collision resolver gives with the restitution (and the friction) of the
\* surface type set last
C13_SurfaceRestitutionUsed ==
  [][(pc = "loop" /\ accumulator > 0) =>
       \A i \in 1..Len(engine.projectiles) :
          engine'.projectiles[i].state.velocity
            = subStep(withSurfaceRestitution(engine), accumulator).projectiles[i].state.velocity]_vars

(***************************************************************************)
(* The exported functions of the physics modules, each called once on      *)
(* arguments drawn from small sets.  probe is a record                     *)
(*   [op, state, environment, dt, re, baseCd, out]                         *)
(* with op = "call" before the call and the name of the function after it. *)
(***************************************************************************)
\* a ProjectileState of the ball, as launch() builds it
probeState(position, velocity, spin, restitution, radius) ==
  [position        |-> position,
   velocity        |-> velocity,
   spin            |-> spin,
   rotation        |-> IdentityQuat,
   mass            |-> ball.massKg,
   area            |-> ball.referenceArea,
   dragCoefficient |-> ball.dragCoefficient,
   spinDamping     |-> ball.spinDamping,
   restitution     |-> restitution,
   momentOfInertia |-> ball.momentOfInertia,
   radius          |-> radius]

\* on the ground at two places, and at the default launch position
ProbePositions ==
  {Vec(0, ball.radius, 0), Vec(-40000000, ball.radius, 15000000), Vec(0, 12000000, 0)}

\* at rest, moving with the wind, falling at 10 m/s, and flying
ProbeVelocities ==
  {ZeroVec, EnvironmentPresets[1].wind, Vec(0, -100000, 0), Vec(143000, 100000, 10000)}

\* no spin, the cannon's spin and a tumbling spin, in mrad/s
ProbeSpins == {ZeroVec, Vec(0, 0, 6000), Vec(3000, -2000, 1000)}

\* the catalog's restitution of the ball and a restitution of 0.5
ProbeRestitutions == {ball.restitution, 5000}

\* the radius of the ball, and the missing radius of a copy made by cloneState
ProbeRadii == {Num(ball.radius), NaN}

\* the first preset, and the same without air
ProbeEnvironments ==
  {[gravity |-> EnvironmentPresets[1].gravity, airDensity |-> rho,
    windVector |-> EnvironmentPresets[1].wind] : rho \in {EnvironmentPresets[1].airDensity, 0}}

\* sub-step sizes, in ms
ProbeSteps == {MIN_TIME_STEP, MAX_TIME_STEP}

\* Reynolds numbers at and just below the regime boundaries, in 1e-2
ProbeReynolds ==
  {100 - 1, 100, 100000 - 1, 100000, 30000000 - 1, 30000000, 50000000 - 1, 50000000}

\* the drag coefficients of the catalog, in 1e-4
ProbeBaseCds == {1200, 1800, 2800, 3200, 3500}

StateCalls ==
  {[op |-> "call", dt |-> dt, environment |-> environment, re |-> 0, baseCd |-> 0,
    out |-> ZeroVec,
    state |-> probeState(position, velocity, spin, restitution, radius)] :
     position \in ProbePositions, velocity \in ProbeVelocities, spin \in ProbeSpins,
     restitution \in ProbeRestitutions, radius \in ProbeRadii,
     environment \in ProbeEnvironments, dt \in ProbeSteps}

ReynoldsCalls ==
  {[op |-> "number", dt |-> 0, environment |-> CHOOSE e \in ProbeEnvironments : TRUE,
    re |-> re, baseCd |-> baseCd, out |-> ZeroVec,
    state |-> probeState(ZeroVec, ZeroVec, ZeroVec, ball.restitution, Num(ball.radius))] :
     re \in ProbeReynolds, baseCd \in ProbeBaseCds}

\* a body without drag (drag coefficient 0) and without spin in still air,
\* under the gravity of the presets
GravityCalls ==
  {[op |-> "call", dt |-> dt, re |-> 0, baseCd |-> 0, out |-> ZeroVec,
    environment |-> [gravity |-> gravity, airDensity |-> EnvironmentPresets[1].airDensity,
                     windVector |-> ZeroVec],
    state |-> [probeState(position, velocity, ZeroVec, ball.restitution, Num(ball.radius))
                 EXCEPT !.dragCoefficient = 0]] :
     position \in ProbePositions, velocity \in ProbeVelocities \ {ZeroVec},
     gravity \in {EnvironmentPresets[k].gravity : k \in 1..Len(EnvironmentPresets)},
     dt \in ProbeSteps}

\* glancing impacts: on the ground, fast along it and slowly into it
GlancingVelocities == {Vec(143000, -10000, 10000), Vec(-30000, -20000, 60000)}

\* an impact at 10 m/s against the ground normal at the origin
AgainstNormal == VScale(getGroundNormal(0, 0), -100000, Unit)

CollisionCalls ==
  {[op |-> "call", dt |-> MIN_TIME_STEP, re |-> 0, baseCd |-> 0, out |-> ZeroVec,
    environment |-> [gravity |-> EnvironmentPresets[1].gravity,
                     airDensity |-> EnvironmentPresets[1].airDensity,
                     windVector |-> EnvironmentPresets[1].wind],
    state |-> probeState(position, velocity, spin, restitution, Num(ball.radius))] :
     position \in {q \in ProbePositions : q.y = ball.radius},
     velocity \in GlancingVelocities \cup {AgainstNormal}, spin \in ProbeSpins,
     restitution \in ProbeRestitutions}

ProbeInit ==
  /\ EngineInit
  /\ probe \in StateCalls \cup GravityCalls \cup CollisionCalls \cup ReynoldsCalls

DragForce ==
  /\ probe.op = "call"
  /\ probe' = [probe EXCEPT !.op = "dragForce",
                            !.out = dragForce(probe.state, probe.environment)]
  /\ UNCHANGED <<engine, callerEnv, pc, accumulator, steps, calls>>

MagnusForce ==
  /\ probe.op = "call"
  /\ probe' = [probe EXCEPT !.op = "magnusForce",
                            !.out = magnusForce(probe.state, probe.environment)]
  /\ UNCHANGED <<engine, callerEnv, pc, accumulator, steps, calls>>

\* called with the state of a projectile only, never with a copy
AerodynamicTorque ==
  /\ probe.op = "call"
  /\ ~probe.state.radius.nan
  /\ probe' = [probe EXCEPT !.op = "aerodynamicTorque",
                            !.out = aerodynamicTorque(probe.state, probe.environment)]
  /\ UNCHANGED <<engine, callerEnv, pc, accumulator, steps, calls>>

IntegrateSpin ==
  /\ probe.op = "call"
  /\ probe' = [probe EXCEPT !.op = "integrateSpin",
                            !.out = integrateSpin(probe.state, probe.dt)]
  /\ UNCHANGED <<engine, callerEnv, pc, accumulator, steps, calls>>

IntegrateRotation ==
  /\ probe.op = "call"
  /\ probe' = [probe EXCEPT !.op = "integrateRotation",
                            !.out = integrateRotation(probe.state, probe.dt)]
  /\ UNCHANGED <<engine, callerEnv, pc, accumulator, steps, calls>>

\* part_004 lines 295-296: called when position.y <= radius and velocity.y < -0.1
HandleGroundCollision ==
  /\ probe.op = "call"
  /\ ~probe.state.radius.nan
  /\ probe.state.position.y <= probe.state.radius.v
  /\ probe.state.velocity.y < -1000
  /\ probe' = [probe EXCEPT !.op = "handleGroundCollision",
                            !.out = handleGroundCollision(probe.state, engine.surfaceProps)]
  /\ UNCHANGED <<engine, callerEnv, pc, accumulator, steps, calls>>

DragCoefficient ==
  /\ probe.op = "number"
  /\ probe' = [probe EXCEPT !.op = "dragCoefficient",
                            !.out = dragCoefficient(Num(probe.re), probe.baseCd)]
  /\ UNCHANGED <<engine, callerEnv, pc, accumulator, steps, calls>>

\* the copy rk4Integrate makes of the state for its stages 2 to 4
CloneState ==
  /\ probe.op = "call"
  /\ ~probe.state.radius.nan
  /\ probe' = [probe EXCEPT !.op = "cloneState", !.out = cloneState(probe.state)]
  /\ UNCHANGED <<engine, callerEnv, pc, accumulator, steps, calls>>

\* part_004 line 272: called with the state of a projectile
Rk4Integrate ==
  /\ probe.op = "call"
  /\ ~probe.state.radius.nan
  /\ probe' = [probe EXCEPT !.op = "rk4Integrate",
                            !.out = rk4Integrate(probe.state, probe.environment, probe.dt)]
  /\ UNCHANGED <<engine, callerEnv, pc, accumulator, steps, calls>>

ProbeNext ==
  DragForce \/ MagnusForce \/ AerodynamicTorque \/ IntegrateSpin \/ IntegrateRotation
  \/ HandleGroundCollision \/ DragCoefficient \/ CloneState \/ Rk4Integrate

ProbeSpec == ProbeInit /\ [][ProbeNext]_vars

\* a fall straight down at 10 m/s without spin, with restitution 0.5
HeadOn(state) ==
  /\ state.restitution = 5000
  /\ IsZero(state.spin)
  /\ state.velocity = Vec(0, -100000, 0)

\* C14: the head-on collision leaves the vertical velocity +5 m/s (within
\* 0.1 m/s) and the horizontal velocity zero
C14_HeadOnBounce ==
  (probe.op = "handleGroundCollision" /\ HeadOn(probe.state)) =>
     /\ ~probe.out.velocity.nan
     /\ probe.out.velocity.x = 0
     /\ probe.out.velocity.z = 0
     /\ Abs(probe.out.velocity.y - 50000) <= 1000

\* the arguments of the call have the projectile move with the wind
AtRelativeRest == probe.state.velocity = probe.environment.windVector

\* C15: dragForce is zero at zero relative velocity; magnusForce and
\* aerodynamicTorque are zero at zero relative velocity or zero spin;
\* integrateSpin and integrateRotation leave a state without spin as it is
C15_GuardClauses ==
  /\ (probe.op = "dragForce" /\ AtRelativeRest) => probe.out = ZeroVec
  /\ (probe.op \in {"magnusForce", "aerodynamicTorque"}
      /\ (AtRelativeRest \/ IsZero(probe.state.spin))) => probe.out = ZeroVec
  /\ (probe.op \in {"integrateSpin", "integrateRotation"} /\ IsZero(probe.state.spin))
       => probe.out = probe.state

\* magnusForce has returned zero for a spinning projectile at zero relative
\* velocity whose state is a copy without radius
C15_Witness ==
  /\ probe.op = "magnusForce"
  /\ AtRelativeRest
  /\ ~IsZero(probe.state.spin)
  /\ probe.state.radius.nan
  /\ probe.out = ZeroVec

(***************************************************************************)
(* Projectile definitions that no body can have                            *)
(***************************************************************************)
Degenerate(definition) ==
  \/ definition.massKg <= 0
  \/ definition.referenceArea <= 0
  \/ definition.radius <= 0
  \/ definition.momentOfInertia.x = 0
  \/ definition.momentOfInertia.y = 0
  \/ definition.momentOfInertia.z = 0

\* the ball with a reference area of zero and with a negative one
DegenerateDefinitions ==
  {[ball EXCEPT !.referenceArea = area] : area \in {0, -ball.referenceArea}}

\* the pushed launch of the ball and of the degenerate definitions
DegenerateOptions ==
  {[profile |-> push(NoPosition), projectile |-> definition, manualConfig |-> NoManual] :
     definition \in {ball} \cup DegenerateDefinitions}

UncheckedLaunch == LaunchFrom(DegenerateOptions)

DegenerateNext == UncheckedLaunch \/ UpdateBegin \/ SubStep \/ UpdateEnd

DegenerateSpec == Init /\ [][DegenerateNext]_vars

\* C16: the engine holds no active projectile with a degenerate definition,
\* and no launch record of a projectile with such a definition
C16_DegenerateRejected ==
  \A i \in 1..Len(engine.projectiles) :
     Degenerate(engine.projectiles[i].params.projectile)
       => /\ ~engine.projectiles[i].active
          /\ FindRecord(engine.records, engine.projectiles[i].id, 1) = 0

(***************************************************************************)
(* Two TurbulenceField instances, a and b, receive calls one at a time, in *)
(* any interleaving.  probe is a record                                    *)
(*   [op, a, b, callsA, callsB, outsA, outsB]                              *)
(* with the fields of the two instances, the calls each has received and   *)
(* the values they returned.                                               *)
(***************************************************************************)
\* the values Math.random() gives the constructor of the second instance: those
\* it gave the first (NoiseSeeds), or others
TwinSeeds == { <<17, 42, 91>>, <<23, 5, 64>> }

\* calls made on either instance
MaxTwinCalls == 3

\* new TurbulenceField(): the seeds are the three draws of Math.random()
newTurbulenceField(draws) ==
  [noiseX |-> draws[1], noiseY |-> draws[2], noiseZ |-> draws[3], time |-> 0]

\* update(dt), getTurbulence(position, baseWind) and addGust(position, time)
TwinCalls ==
  {[op |-> "update", dt |-> dt, position |-> ZeroVec, baseWind |-> ZeroVec, time |-> 0] :
     dt \in {8, 40}}
  \cup {[op |-> "getTurbulence", dt |-> 0, position |-> Vec(0, 12000000, 0),
         baseWind |-> EnvironmentPresets[1].wind, time |-> 0],
        [op |-> "addGust", dt |-> 0, position |-> Vec(0, 12000000, 0),
         baseWind |-> ZeroVec, time |-> 9000]}

\* the field after the call: this.time += dt * 0.5, in micro-seconds
fieldAfter(field, call) ==
  IF call.op = "update" THEN [field EXCEPT !.time = @ + call.dt * 500] ELSE field

\* a TurbulenceField whose methods read a clock shared by all instances
valueOfShared(field, call) ==
  CASE call.op = "update" -> "undefined"
    [] call.op = "getTurbulence" ->
         getTurbulence([field EXCEPT !.time = probe.a.time + probe.b.time],
                       call.position, call.baseWind)
    [] call.op = "addGust" -> addGust(call.position, call.time)

\* the value the call returns
valueOf(field, call) ==
  CASE call.op = "update" -> "undefined"
    [] call.op = "getTurbulence" -> getTurbulence(field, call.position, call.baseWind)
    [] call.op = "addGust" -> addGust(call.position, call.time)

TwinInit ==
  /\ EngineInit
  /\ \E drawsA \in NoiseSeeds, drawsB \in TwinSeeds :
       probe = [op |-> "twin", a |-> newTurbulenceField(drawsA),
                b |-> newTurbulenceField(drawsB),
                callsA |-> << >>, callsB |-> << >>, outsA |-> << >>, outsB |-> << >>]

CallA ==
  /\ probe.op = "twin"
  /\ Len(probe.callsA) < MaxTwinCalls
  /\ \E call \in TwinCalls :
       probe' = [probe EXCEPT !.a = fieldAfter(@, call),
                              !.callsA = Append(@, call),
                              !.outsA = Append(@, valueOf(probe.a, call))]
  /\ UNCHANGED <<engine, callerEnv, pc, accumulator, steps, calls>>

CallB ==
  /\ probe.op = "twin"
  /\ Len(probe.callsB) < MaxTwinCalls
  /\ \E call \in TwinCalls :
       probe' = [probe EXCEPT !.b = fieldAfter(@, call),
                              !.callsB = Append(@, call),
                              !.outsB = Append(@, valueOf(probe.b, call))]
  /\ UNCHANGED <<engine, callerEnv, pc, accumulator, steps, calls>>

TwinNext == CallA \/ CallB

TwinSpec == TwinInit /\ [][TwinNext]_vars

seedsOf(field) == <<field.noiseX, field.noiseY, field.noiseZ>>

Last(seq) == seq[Len(seq)]

RegimeBoundaries == {100, 100000, 30000000, 50000000}

\* the limit from below at re: the values at re - 0.01 and re - 0.02, continued
limitFromBelow(re, baseCd) ==
  2 * dragCoefficient(Num(re - 1), baseCd).v - dragCoefficient(Num(re - 2), baseCd).v

\* C18: at each regime boundary the drag coefficient is within 0.01 of its
\* limit from below
C18_DragContinuous ==
  (probe.op = "dragCoefficient" /\ probe.re \in RegimeBoundaries) =>
     Abs(probe.out.v - limitFromBelow(probe.re, probe.baseCd)) <= 100

(***************************************************************************)
(* The rotation quaternion                                                 *)
(***************************************************************************)
\* |q| is 1 within 5e-4 (the components are rounded to 1e-4)
UnitNorm(q) ==
  /\ ~q.nan
  /\ Abs(ISqrt(q.x * q.x + q.y * q.y + q.z * q.z + q.w * q.w) - Unit) <= 5

\* C19: after any sequence of sub-steps the rotation of every projectile
\* has unit norm
C19_UnitRotation ==
  \A i \in 1..Len(engine.projectiles) : UnitNorm(engine.projectiles[i].state.rotation)

(***************************************************************************)
(* Divisions in the aerodynamic forces                                     *)
(***************************************************************************)
\* C20: for the state of a projectile (radius defined) with non-zero
\* relative speed, in any environment, dragForce and magnusForce return a
\* finite acceleration
C20_FiniteAcceleration ==
  (/\ probe.op \in {"dragForce", "magnusForce"}
   /\ ~probe.state.radius.nan
   /\ ~AtRelativeRest)
    => ~probe.out.nan

(***************************************************************************)
(* The window of the force profile: launches without manualConfig          *)
(***************************************************************************)
\* the push without spin and the push with the cannon's spin
ProfileOptions ==
  {[profile |-> profile, projectile |-> ball, manualConfig |-> NoManual] :
     profile \in {push(NoPosition), spinPush}}

ProfileLaunch == LaunchFrom(ProfileOptions)

ProfileNext == ProfileLaunch \/ UpdateBegin \/ SubStep \/ UpdateEnd

ProfileSpec == Init /\ [][ProfileNext]_vars

\* lines 243-244: the projectile with the sub-step added to its clocks
timed(projectile, dt) ==
  [projectile EXCEPT !.elapsed = @ + dt, !.telemetryTimer = @ + dt]

\* what one sub-step of size dt does with the profile of projectile p, which
\* becomes q: applied if and only if the new elapsed time is within the
\* duration, with the spin increment spinAxis * spinRate * dt
ProfileStep(p, q, dt) ==
  LET profile == p.params.profile
      applied == applyProfile(timed(p, dt), dt)
  IN  /\ dt > 0
      /\ q.elapsed = p.elapsed + dt
      /\ q.profileSteps = p.profileSteps + 1 <=> q.elapsed <= profile.duration
      /\ q.elapsed <= profile.duration =>
           applied.state.spin
             = VAdd(p.state.spin,
                    VScale(VScale(profile.spinAxis, profile.spinRate, Unit), dt, 1000))
      /\ q.elapsed > profile.duration =>
           /\ q.profileSteps = p.profileSteps
           /\ applied = timed(p, dt)

\* C21: in a launch without manualConfig a sub-step applies the profile if
\* and only if the elapsed time with the sub-step added is within the
\* duration; the elapsed time only grows, so past the duration the profile is
\* never applied again
C21_ProfileWindow ==
  [][(pc = "loop" /\ accumulator > 0) =>
       \A i \in 1..Len(engine.projectiles) :
          (engine.projectiles[i].active
           /\ ~engine.projectiles[i].params.manualConfig.defined)
            => ProfileStep(engine.projectiles[i], engine'.projectiles[i],
                           chooseStep(engine, accumulator))]_vars

\* a projectile pushed by its profile has run a second sub-step past the
\* duration in this frame, with the profile applied in earlier sub-steps only
C21_Witness ==
  \E i \in 1..Len(engine.projectiles) :
     LET p == engine.projectiles[i]
     IN  /\ ~p.params.manualConfig.defined
         /\ p.params.profile.spinRate > 0
         /\ p.profileSteps > 0
         /\ Len(steps) >= 2
         /\ p.elapsed - steps[Len(steps)] > p.params.profile.duration

(***************************************************************************)
(* The Runge-Kutta step                                                    *)
(***************************************************************************)
\* the fields of a ProjectileState other than position and velocity
CarriedFields ==
  {"radius", "momentOfInertia", "rotation", "spin", "mass", "area", "dragCoefficient",
   "spinDamping", "restitution"}

\* C22: the copy the stages 2 to 4 are evaluated on has every field other
\* than position and velocity, with the value of the state
C22_CloneComplete ==
  probe.op = "cloneState" =>
     \A field \in CarriedFields :
        /\ field \in DOMAIN probe.out
        /\ probe.out[field] = probe.state[field]

\* the arguments of the call give a constant acceleration: no drag
\* coefficient, no spin, no wind
GravityOnly ==
  /\ probe.state.dragCoefficient = 0
  /\ IsZero(probe.state.spin)
  /\ IsZero(probe.environment.windVector)

\* the state after time dt (ms) under the constant acceleration a (mm/s^2):
\* velocity + a dt and position + velocity dt + a dt^2 / 2
closedForm(state, a, dt) ==
  [state EXCEPT
     !.velocity = VAdd(state.velocity, VScale(a, dt, 100)),
     !.position = VAdd(VAdd(state.position, VScale(state.velocity, dt, 1)),
                       VScale(a, dt * dt, 200))]

\* position and velocity agree within 1e-6 m and 2e-4 m/s: the stage
\* velocities are rounded to 1e-4 m/s, which a step of 20 ms turns into 1e-6 m
Close(s, t) ==
  /\ ~s.position.nan /\ ~t.position.nan /\ ~s.velocity.nan /\ ~t.velocity.nan
  /\ \A c \in {"x", "y", "z"} :
        /\ Abs(s.position[c] - t.position[c]) <= 10
        /\ Abs(s.velocity[c] - t.velocity[c]) <= 2

\* C23: under gravity alone one step of size dt gives velocity + a dt and
\* position + velocity dt + a dt^2 / 2, and so do two steps of size dt / 2
C23_ConstantAcceleration ==
  (probe.op = "rk4Integrate" /\ GravityOnly) =>
     LET a == Vec(0, -probe.environment.gravity, 0)
         half == probe.dt \div 2
     IN  /\ Close(probe.out, closedForm(probe.state, a, probe.dt))
         /\ probe.dt = 2 * half =>
              Close(rk4Integrate(rk4Integrate(probe.state, probe.environment, half),
                                 probe.environment, half),
                    closedForm(probe.state, a, probe.dt))

\* a step of 20 ms has been taken under gravity alone by a body in flight
C23_Witness ==
  /\ probe.op = "rk4Integrate"
  /\ GravityOnly
  /\ probe.dt = MAX_TIME_STEP
  /\ probe.state.velocity.x # 0
  /\ probe.out.velocity.y = probe.state.velocity.y
                            - (probe.environment.gravity * MAX_TIME_STEP) \div 100


(***************************************************************************)
(* The summary of a finalized record                                       *)
(***************************************************************************)
\* a downward impulse of 0.45 kg m/s through the centre of mass
dropped == [downward EXCEPT !.impulseVector = Vec(0, -4500000, 0)]

\* thrown straight down from 11 cm above the ground, and from 5.5 mm above it
SettlingOptions ==
  {[profile |-> push(At(-40000000, 2200000, 15000000)), projectile |-> ball,
    manualConfig |-> dropped]}
    \cup DownwardOptions

SettlingLaunch == LaunchFrom(SettlingOptions)

SettlingNext == SettlingLaunch \/ TelemetryBegin \/ SubStep \/ UpdateEnd

SettlingSpec == Init /\ [][SettlingNext]_vars

\* the summary of the record r agrees with the samples the record holds
SummaryOfTelemetry(r) ==
  LET samples == samplesOf(r)
      summary == engine.records[r].summary
  IN  /\ summary.maxHeight = MaxOf(samples, "altitude", 1)
      /\ summary.totalRange = MaxOf(samples, "range", 1)
      /\ Len(samples) > 0 => summary.flightTime = samples[Len(samples)].time
      /\ Len(samples) = 0
           => \A i \in instancesOf(engine.records[r].id) :
                 summary.flightTime = engine.projectiles[i].elapsed

\* C24: the summary of a finalized record is the maximum altitude and the
\* maximum range over the samples the record holds and the time of its last
\* sample (the elapsed time if it holds none)
C24_SummaryFromTelemetry ==
  \A r \in 1..Len(engine.records) :
     engine.records[r].summary.defined => SummaryOfTelemetry(r)


(***************************************************************************)
(* Coming to rest                                                          *)
(***************************************************************************)
\* the state of projectile p after the integration of a sub-step, at line 294
integrated(p, dt) == advanceState(applyProfile(timed(p, dt), dt), engine, dt).state

\* the projectile at index i becomes inactive in this sub-step: the collision
\* branch ran and left it slower than REST_THRESHOLD, and its record gets
\* that speed as impactSpeed
SettlesOnImpact(i) ==
  LET p   == engine.projectiles[i]
      q   == engine'.projectiles[i]
      mid == integrated(p, chooseStep(engine, accumulator))
      r   == FindRecord(engine'.records, p.id, 1)
  IN  /\ pc = "loop" /\ accumulator > 0
      /\ ~mid.position.nan /\ mid.position.y <= mid.radius.v
      /\ ~mid.velocity.nan /\ mid.velocity.y < -1000
      /\ ~q.state.velocity.nan
      /\ Abs(q.state.velocity.y) < REST_THRESHOLD
      /\ VLen(q.state.velocity) < REST_THRESHOLD
      /\ r > 0
      /\ engine'.records[r].summary.defined
      /\ engine'.records[r].summary.impactSpeed = VLen(q.state.velocity)
      /\ engine'.records[r].summary.impactSpeed < REST_THRESHOLD

\* C25: a projectile becomes inactive only in a sub-step in which the ground
\* collision branch ran (position.y <= radius and velocity.y < -0.1 after the
\* integration) and left |velocity.y| and |velocity| below REST_THRESHOLD, so
\* the impactSpeed of every finalized record is below REST_THRESHOLD
C25_SettledOnlyAtRest ==
  [][\A i \in 1..Len(engine.projectiles) :
        (/\ engine.projectiles[i].active
         /\ i <= Len(engine'.projectiles)
         /\ engine'.projectiles[i].id = engine.projectiles[i].id
         /\ ~engine'.projectiles[i].active) => SettlesOnImpact(i)]_vars

\* a projectile has come to rest after a flight of 80 ms or more
C25_Witness ==
  \E i \in 1..Len(engine.projectiles) :
     LET p == engine.projectiles[i]
     IN  /\ ~p.active
         /\ p.elapsed >= TELEMETRY_INTERVAL
         /\ p.state.position.y = p.state.radius.v
         /\ record(p.id).summary.defined
         /\ record(p.id).summary.impactSpeed > 0
         /\ record(p.id).summary.impactSpeed < REST_THRESHOLD


(***************************************************************************)
(* The impulses of a ground collision, read off the change of velocity:    *)
(* velocity' - velocity = (jn * normal + jt * tangentDir) / mass           *)
(***************************************************************************)
\* the change of velocity split along the ground normal, and the impulses
\* in 1e-7 kg m/s
impulsesOf(before, after) ==
  LET normal == getGroundNormal(before.position.x, before.position.z)
      dv     == VSub(after.velocity, before.velocity)
      along  == VDot(dv, normal, Unit)
  IN  [jn |-> before.mass * along,
       jt |-> before.mass * VLen(VSub(dv, VScale(normal, along, Unit))),
       contact |-> contactKinematics(before, normal)]

\* what rounding the velocity to 1e-4 m/s and the components of the normal to
\* 1e-4 leaves of an impulse next to the normal impulse jn, in 1e-7 kg m/s
ImpulseResolution(state, jn) == 4 * state.mass + Abs(jn) \div 2000

\* C26: in a resolved ground collision (the contact point moves into the
\* ground faster than 0.01 m/s) the normal impulse is positive, the friction
\* impulse is at most frictionCoefficient * |jn|, and there is no friction
\* impulse when the tangential contact speed is <= 0.01 m/s
C26_CoulombClamp ==
  probe.op = "handleGroundCollision" =>
     LET J == impulsesOf(probe.state, probe.out)
     IN  (~J.contact.nan /\ J.contact.vn < -100) =>
            /\ ~probe.out.velocity.nan
            /\ J.jn > 0
            /\ J.jt <= MulDiv(Abs(J.jn), engine.surfaceProps.friction, Unit)
                          + ImpulseResolution(probe.state, J.jn)
            /\ J.contact.speed <= 100 => J.jt <= ImpulseResolution(probe.state, J.jn)

\* a glancing impact whose friction impulse is at the Coulomb limit
C26_Witness ==
  /\ probe.op = "handleGroundCollision"
  /\ probe.state.velocity \in GlancingVelocities
  /\ LET J == impulsesOf(probe.state, probe.out)
     IN  /\ J.contact.vn < -100
         /\ J.contact.speed > 100
         /\ J.jn > 0
         /\ Abs(J.jt - MulDiv(J.jn, engine.surfaceProps.friction, Unit))
               <= ImpulseResolution(probe.state, J.jn)


(***************************************************************************)
(* Grounded contact and impact                                             *)
(***************************************************************************)
\* the projectile is within the contact tolerance of the ground and moves
\* downward faster than the collision threshold of 0.1 m/s
FastIntoGround(p) ==
  /\ ~p.state.position.nan /\ ~p.state.velocity.nan
  /\ p.state.position.y - p.state.radius.v <= GROUND_CONTACT_TOLERANCE
  /\ p.state.velocity.y < -1000

\* the state the sub-step gives when the integration runs without the
\* grounded contact handling and the collision branch follows it
resolvedByImpulse(p, dt) ==
  collideAndSettle(advanceStateAirborne(p, engine, dt), engine).state

\* C27: a projectile within the contact tolerance that moves downward faster
\* than 0.1 m/s does not get the grounded contact handling in the sub-step:
\* its normal velocity is not cancelled, the impulse resolver handles it
C27_ImpactNotContact ==
  [][(pc = "loop" /\ accumulator > 0) =>
        \A i \in 1..Len(engine.projectiles) :
           LET p == applyProfile(timed(engine.projectiles[i],
                                       chooseStep(engine, accumulator)),
                                 chooseStep(engine, accumulator))
           IN  (p.active /\ FastIntoGround(p))
                 => engine'.projectiles[i].state
                      = resolvedByImpulse(p, chooseStep(engine, accumulator))]_vars


(***************************************************************************)
(* The telemetry of a record                                               *)
(***************************************************************************)
\* the sample times of every record are strictly increasing
SamplesOrdered ==
  \A r \in 1..Len(engine.records) :
     \A k \in 1..(Len(samplesOf(r)) - 1) :
        samplesOf(r)[k].time < samplesOf(r)[k + 1].time

\* a step keeps the samples of every record and appends at most one, and
\* none to a record that has its summary
SamplesGrow ==
  \A r \in 1..Len(engine.records) :
     LET before == samplesOf(r)
         after  == engine'.arrays[engine'.records[r].samples]
     IN  /\ r <= Len(engine'.records)
         /\ Len(after) \in {Len(before), Len(before) + 1}
         /\ SubSeq(after, 1, Len(before)) = before
         /\ engine.records[r].summary.defined => after = before

\* C28: the samples of a record only grow at the end, by at most one sample
\* per sub-step, existing samples stay as they are, the sample times are
\* strictly increasing, and a record that has its summary gets no sample
C28_TelemetryAppendOnly == []SamplesOrdered /\ [][SamplesGrow]_vars

\* one record holds two samples, another got its last sample in the sub-step
\* that gave it its summary
C28_Witness ==
  /\ \E r \in 1..Len(engine.records) : Len(samplesOf(r)) >= 2
  /\ \E r \in 1..Len(engine.records) :
       /\ engine.records[r].summary.defined
       /\ Len(samplesOf(r)) >= 1


(***************************************************************************)
(* The wind of a projectile: launches pushed by their profile, while the   *)
(* caller goes through the environment presets                             *)
(***************************************************************************)
WindNext == ProfileLaunch \/ MutateEnvironment \/ UpdateBegin \/ SubStep \/ UpdateEnd

WindSpec == Init /\ [][WindNext]_vars

\* gravity, air density and wind as an EnvironmentState holds them
valuesOf(environment, vectors) ==
  [gravity |-> environment.gravity, airDensity |-> environment.airDensity,
   windVector |-> vectors[environment.windVector]]

\* a projectile new in the list has the values of the caller's environment
CopiedAtLaunch ==
  \A j \in 1..Len(engine'.projectiles) :
     (\A i \in 1..Len(engine.projectiles) :
         engine.projectiles[i].id # engine'.projectiles[j].id)
       => valuesOf(engine'.projectiles[j].environment, engine'.vectors)
            = valuesOf(callerEnv, engine.vectors)

\* the turbulence time and globalTime change at the start of update() only
ClocksOfUpdate ==
  (engine'.turbulence # engine.turbulence \/ engine'.globalTime # engine.globalTime)
    => pc = "idle" /\ pc' = "loop"

\* C29: after every sub-step, and every other step, the environment of a
\* projectile holds the gravity, air density and wind copied at its launch,
\* and integrating a projectile leaves the turbulence time and globalTime
\* as update() set them
C29_NoAccumulation == [][CopiedAtLaunch /\ EnvironmentKept /\ ClocksOfUpdate]_vars

\* a projectile has been integrated under a turbulent wind that differs from
\* the wind of its environment, and the caller has changed its own since
C29_Witness ==
  \E i \in 1..Len(engine.projectiles) :
     LET p    == engine.projectiles[i]
         base == engine.vectors[p.environment.windVector]
     IN  /\ p.elapsed >= 2 * MIN_TIME_STEP
         /\ ~p.state.position.nan
         /\ engine.turbulence.time > 0
         /\ getTurbulence(engine.turbulence, p.state.position, base) # base
         /\ base # engine.vectors[callerEnv.windVector]
         /\ p.environment.gravity # callerEnv.gravity


(***************************************************************************)
(* The sub-step loop ends                                                  *)
(***************************************************************************)
\* ceil(MAX_TIME_STEP / MIN_TIME_STEP)
MaxFullSteps == (MAX_TIME_STEP + MIN_TIME_STEP - 1) \div MIN_TIME_STEP

\* the sub-steps of the frame that are MIN_TIME_STEP long or longer
fullSteps == {k \in 1..Len(steps) : steps[k] >= MIN_TIME_STEP}

LoopBounded ==
  /\ Cardinality(fullSteps) <= MaxFullSteps
  /\ Len(steps) <= Cardinality(fullSteps) + 1
  /\ (pc = "loop" /\ calls.dt <= 0) => steps = << >> /\ accumulator <= 0

\* a sub-step takes from what is left of the frame, and update(dt) with
\* dt <= 0 leaves the projectiles, their samples and the records as they are
LoopAdvances ==
  /\ (pc = "loop" /\ pc' = "loop") => accumulator' < accumulator
  /\ ((pc = "idle" /\ pc' = "loop" /\ calls'.dt <= 0) \/ (pc = "loop" /\ calls.dt <= 0))
       => /\ engine'.projectiles = engine.projectiles
          /\ engine'.arrays = engine.arrays
          /\ engine'.records = engine.records

\* C30: update(dt) with dt <= 0 runs no sub-step and changes no projectile;
\* with dt > 0 its loop runs at most ceil(MAX_TIME_STEP / MIN_TIME_STEP) full
\* sub-steps and one remainder, each taking from what is left of the frame,
\* with any number of projectiles in the engine
C30_UpdateTerminates == []LoopBounded /\ [][LoopAdvances]_vars

\* after an update(-0.002), an update(0.04) has run four sub-steps of
\* MIN_TIME_STEP on a projectile near the ground
C30_Witness ==
  /\ LoopDone
  /\ engine.globalTime = clampDelta(-2) + MAX_TIME_STEP
  /\ Len(steps) = MaxFullSteps
  /\ \A k \in 1..Len(steps) : steps[k] = MIN_TIME_STEP
  /\ Len(engine.projectiles) > 0

====
